---------------------------- MODULE Spec2Model ----------------------------
(***************************************************************************)
(* Model of the markdown-to-slides formatting core of google-slides-mcp:   *)
(* the inline formatter, the list and table structurers, the font-fit      *)
(* sizer and the text partitioner (src/utils/markdownParser.ts and         *)
(* src/utils/slideHelpers.ts).                                             *)
(*                                                                         *)
(* A JavaScript string is a sequence of one-character strings; offsets are *)
(* 0-based as in the source, so the character at offset i is s[i + 1].     *)
(***************************************************************************)
EXTENDS Integers, Sequences, FiniteSets, TLC

VARIABLES
    pc,     \* position of the call in progress
    args,   \* arguments of the call in progress
    frame,  \* locals of splitTextForSlides while it runs
    ret     \* value returned by the call

vars == <<pc, args, frame, ret>>

(***************************************************************************)
(* Bounds of the model.                                                    *)
(***************************************************************************)
MaxMarkdownLen == 7
MaxPlainLen == 2
MaxTextLen == 7
MaxChars == 6
MaxSlides == 8
MaxFitLen == 4
MaxTableLines == 4
MaxListLines == 3

(***************************************************************************)
(* JavaScript string primitives.                                           *)
(***************************************************************************)
Min(S) == CHOOSE x \in S : \A y \in S : x <= y

Max(S) == CHOOSE x \in S : \A y \in S : x >= y

Strs(alphabet, n) == UNION {[1..k -> alphabet] : k \in 0..n}

Clamp(i, len) == IF i < 0 THEN 0 ELSE IF i > len THEN len ELSE i

\* String.prototype.substring(a, b): both ends clamped to [0, length] and
\* swapped when a > b.
Substring(s, a, b) ==
    LET ca == Clamp(a, Len(s))
        cb == Clamp(b, Len(s))
        lo == IF ca <= cb THEN ca ELSE cb
        hi == IF ca <= cb THEN cb ELSE ca
    IN  SubSeq(s, lo + 1, hi)

\* String.prototype.substring(a): up to the end of the string.
SubstringFrom(s, a) == Substring(s, a, Len(s))

\* The character at 0-based offset i, "" past the end.
CharAt(s, i) == IF i >= 0 /\ i < Len(s) THEN s[i + 1] ELSE ""

StartsWithAt(s, sep, i) ==
    /\ i + Len(sep) <= Len(s)
    /\ \A k \in 1..Len(sep) : s[i + k] = sep[k]

\* String.prototype.indexOf(sep, from), -1 when absent.
IndexOf(s, sep, from) ==
    LET hits == {i \in from..Len(s) : StartsWithAt(s, sep, i)}
    IN  IF hits = {} THEN -1 ELSE Min(hits)

Includes(s, sep) == IndexOf(s, sep, 0) # -1

EndsWith(s, sep) ==
    Len(s) >= Len(sep) /\ StartsWithAt(s, sep, Len(s) - Len(sep))

\* String.prototype.split(sep) for a non-empty separator.
RECURSIVE SplitFrom(_, _, _)
SplitFrom(s, sep, from) ==
    LET i == IndexOf(s, sep, from)
    IN  IF i = -1
        THEN <<Substring(s, from, Len(s))>>
        ELSE <<Substring(s, from, i)>> \o SplitFrom(s, sep, i + Len(sep))

Split(s, sep) == SplitFrom(s, sep, 0)

\* Characters matched by \s and removed by trim().
IsSpace(c) == c \in {" ", "\n", "\t"}

RECURSIVE TrimStart(_)
TrimStart(s) ==
    IF s # <<>> /\ IsSpace(Head(s)) THEN TrimStart(Tail(s)) ELSE s

RECURSIVE TrimEnd(_)
TrimEnd(s) ==
    IF s # <<>> /\ IsSpace(s[Len(s)])
    THEN TrimEnd(SubSeq(s, 1, Len(s) - 1)) ELSE s

Trim(s) == TrimEnd(TrimStart(s))

RECURSIVE Concat(_)
Concat(ss) == IF ss = <<>> THEN <<>> ELSE Head(ss) \o Concat(Tail(ss))

(***************************************************************************)
(* Inline formatter: parseMarkdownToFormattedText.                         *)
(***************************************************************************)

\* Offset of the first character at or after `from` that is in `stops`,
\* Len(s) when there is none.
RunEnd(s, from, stops) ==
    LET hits == {i \in from..(Len(s) - 1) : s[i + 1] \in stops}
    IN  IF hits = {} THEN Len(s) ELSE Min(hits)

\* End offset of a match of /\*\*([^*]+)\*\*/ anchored at offset i, -1 when
\* the pattern does not match there.
BoldEndAt(s, i) ==
    LET j == RunEnd(s, i + 2, {"*"})
    IN  IF /\ CharAt(s, i) = "*" /\ CharAt(s, i + 1) = "*"
           /\ j > i + 2
           /\ CharAt(s, j) = "*" /\ CharAt(s, j + 1) = "*"
        THEN j + 2 ELSE -1

\* /__([^_]+)__/ anchored at offset i.
UnderlineEndAt(s, i) ==
    LET j == RunEnd(s, i + 2, {"_"})
    IN  IF /\ CharAt(s, i) = "_" /\ CharAt(s, i + 1) = "_"
           /\ j > i + 2
           /\ CharAt(s, j) = "_" /\ CharAt(s, j + 1) = "_"
        THEN j + 2 ELSE -1

\* /\*([^*]+)\*/ anchored at offset i.
ItalicEndAt(s, i) ==
    LET j == RunEnd(s, i + 1, {"*"})
    IN  IF CharAt(s, i) = "*" /\ j > i + 1 /\ CharAt(s, j) = "*"
        THEN j + 1 ELSE -1

\* /\*([^*\n]+?)\*/ anchored at offset i: the lazy run stops at the first
\* "*", and a newline before it makes the attempt fail.
ItalicLineEndAt(s, i) ==
    LET j == RunEnd(s, i + 1, {"*", "\n"})
    IN  IF CharAt(s, i) = "*" /\ j > i + 1 /\ CharAt(s, j) = "*"
        THEN j + 1 ELSE -1

MatchEndAt(type, s, i) ==
    CASE type = "bold" -> BoldEndAt(s, i)
      [] type = "underline" -> UnderlineEndAt(s, i)
      [] type = "italic" -> ItalicEndAt(s, i)
      [] type = "italicLine" -> ItalicLineEndAt(s, i)

\* The while ((match = regex.exec(s)) !== null) loop of a /g regex: the
\* leftmost match at or after lastIndex, then on from its end.
RECURSIVE ExecAll(_, _, _)
ExecAll(type, s, lastIndex) ==
    LET hits == {i \in lastIndex..Len(s) : MatchEndAt(type, s, i) # -1}
    IN  IF hits = {} THEN <<>>
        ELSE LET i == Min(hits)
                 e == MatchEndAt(type, s, i)
             IN  <<[start |-> i, end |-> e]>> \o ExecAll(type, s, e)


\* Number of delimiter characters on each side of a span.
DelimiterWidth(format) == IF format = "italic" THEN 1 ELSE 2

\* Overlaps without its third clause: a candidate that covers r is let
\* through.
OverlapsNoCover(start, end, r) ==
    \/ (start >= r.start /\ start < r.end)
    \/ (end > r.start /\ end <= r.end)

\* The overlap test of the accepting loop: a candidate [start, end) against
\* an accepted replacement r.
Overlaps(start, end, r) ==
    \/ (start >= r.start /\ start < r.end)
    \/ (end > r.start /\ end <= r.end)
    \/ (start <= r.start /\ end >= r.end)

\* AcceptMatches without the overlap test: every match is pushed.
RECURSIVE AcceptMatchesAll(_, _, _, _)
AcceptMatchesAll(replacements, matches, format, markdown) ==
    IF matches = <<>> THEN replacements
    ELSE LET m == Head(matches)
             w == DelimiterWidth(format)
             pushed == [start |-> m.start, end |-> m.end,
                        text |-> Substring(markdown, m.start + w, m.end - w),
                        format |-> format]
         IN  AcceptMatchesAll(Append(replacements, pushed), Tail(matches),
                              format, markdown)

\* replacements.push(...) for every match that overlaps no accepted one;
\* match[1] is the text between the delimiters.
RECURSIVE AcceptMatches(_, _, _, _)
AcceptMatches(replacements, matches, format, markdown) ==
    IF matches = <<>> THEN replacements
    ELSE LET m == Head(matches)
             w == DelimiterWidth(format)
             overlaps == \E k \in 1..Len(replacements) :
                             Overlaps(m.start, m.end, replacements[k])
             pushed == [start |-> m.start, end |-> m.end,
                        text |-> Substring(markdown, m.start + w, m.end - w),
                        format |-> format]
         IN  AcceptMatches(IF overlaps THEN replacements
                           ELSE Append(replacements, pushed),
                           Tail(matches), format, markdown)

\* Array.prototype.sort((a, b) => a.start - b.start): stable, ascending.
RECURSIVE SortByStart(_)
SortByStart(rs) ==
    IF rs = <<>> THEN <<>>
    ELSE LET lo == Min({rs[k].start : k \in 1..Len(rs)})
             first == Min({k \in 1..Len(rs) : rs[k].start = lo})
         IN  <<rs[first]>> \o
             SortByStart(SubSeq(rs, 1, first - 1) \o
                         SubSeq(rs, first + 1, Len(rs)))

PlainSegment(text) ==
    [text |-> text, bold |-> FALSE, italic |-> FALSE, underline |-> FALSE]

StyledSegment(text, format) ==
    [text |-> text, bold |-> format = "bold", italic |-> format = "italic",
     underline |-> format = "underline"]

\* BuildFrom with the loop resuming one character early (textIndex =
\* replacement.end - 1).
RECURSIVE BuildFromEarly(_, _, _)
BuildFromEarly(markdown, replacements, textIndex) ==
    IF replacements = <<>>
    THEN IF textIndex < Len(markdown) /\ SubstringFrom(markdown, textIndex) # <<>>
         THEN <<PlainSegment(SubstringFrom(markdown, textIndex))>>
         ELSE <<>>
    ELSE LET r == Head(replacements)
             plainText == Substring(markdown, textIndex, r.start)
             gap == IF r.start > textIndex /\ plainText # <<>>
                    THEN <<PlainSegment(plainText)>> ELSE <<>>
         IN  gap \o <<StyledSegment(r.text, r.format)>> \o
             BuildFromEarly(markdown, Tail(replacements), r.end - 1)

\* The "Build segments" loop and the trailing remainder.
RECURSIVE BuildFrom(_, _, _)
BuildFrom(markdown, replacements, textIndex) ==
    IF replacements = <<>>
    THEN IF textIndex < Len(markdown) /\ SubstringFrom(markdown, textIndex) # <<>>
         THEN <<PlainSegment(SubstringFrom(markdown, textIndex))>>
         ELSE <<>>
    ELSE LET r == Head(replacements)
             plainText == Substring(markdown, textIndex, r.start)
             gap == IF r.start > textIndex /\ plainText # <<>>
                    THEN <<PlainSegment(plainText)>> ELSE <<>>
         IN  gap \o <<StyledSegment(r.text, r.format)>> \o
             BuildFrom(markdown, Tail(replacements), r.end)

\* BuildSegments without the final fallback.
BuildSegmentsNoFallback(markdown, replacements) ==
    BuildFrom(markdown, replacements, 0)

\* Segments for the sorted replacements; the whole input as one segment when
\* nothing was pushed.
BuildSegments(markdown, replacements) ==
    LET segments == BuildFrom(markdown, replacements, 0)
    IN  IF Len(segments) = 0 THEN <<PlainSegment(markdown)>> ELSE segments

\* The replacements of src/utils/markdownParser.ts: bold, then underline, then
\* italic matches, each pushed unless it overlaps an earlier push; sorted.
Replacements(markdown) ==
    LET afterBold == AcceptMatches(<<>>, ExecAll("bold", markdown, 0),
                                   "bold", markdown)
        afterUnderline == AcceptMatches(afterBold,
                                        ExecAll("underline", markdown, 0),
                                        "underline", markdown)
        afterItalic == AcceptMatches(afterUnderline,
                                     ExecAll("italic", markdown, 0),
                                     "italic", markdown)
    IN  SortByStart(afterItalic)

parseMarkdownToFormattedText(markdown) ==
    BuildSegments(markdown, Replacements(markdown))

(***************************************************************************)
(* The second parseMarkdownToFormattedText of the repository (unnamed      *)
(* part_000), which masks the bold matches before it looks for italics.    *)
(***************************************************************************)

\* The placeholder character written over bold matches (the block character
\* U+2588 in the source; one per masked character, "placeholders of same
\* length").
Placeholder == "#"

\* workingText: markdown with every bold match overwritten by placeholders.
MaskBold(markdown, boldMasks) ==
    [i \in 1..Len(markdown) |->
        IF \E k \in 1..Len(boldMasks) :
               i - 1 >= boldMasks[k].start /\ i - 1 < boldMasks[k].end
        THEN Placeholder ELSE markdown[i]]

OverlapsWithBold(start, end, mask) ==
    \/ (start >= mask.start /\ start < mask.end)
    \/ (end > mask.start /\ end <= mask.end)
    \/ (start < mask.start /\ end > mask.end)

RECURSIVE TagMatches(_, _, _)
TagMatches(matches, format, markdown) ==
    IF matches = <<>> THEN <<>>
    ELSE LET m == Head(matches)
             w == DelimiterWidth(format)
         IN  <<[start |-> m.start, end |-> m.end,
                text |-> Substring(markdown, m.start + w, m.end - w),
                format |-> format]>> \o TagMatches(Tail(matches), format, markdown)

\* allMatches before the sort: bold, underline, then the italics found in
\* workingText that overlap no bold mask.
AllMatches(markdown) ==
    LET boldMasks == ExecAll("bold", markdown, 0)
        workingText == MaskBold(markdown, boldMasks)
        italics == SelectSeq(ExecAll("italicLine", workingText, 0),
                       LAMBDA m : ~ \E k \in 1..Len(boldMasks) :
                           OverlapsWithBold(m.start, m.end, boldMasks[k]))
    IN  TagMatches(boldMasks, "bold", markdown) \o
        TagMatches(ExecAll("underline", markdown, 0), "underline", markdown) \o
        TagMatches(italics, "italic", markdown)

\* The sweep over the sorted allMatches that keeps the first of two
\* overlapping matches.
RECURSIVE KeepFirst(_, _)
KeepFirst(replacements, matches) ==
    IF matches = <<>> THEN replacements
    ELSE LET m == Head(matches)
             overlaps == \E k \in 1..Len(replacements) :
                             Overlaps(m.start, m.end, replacements[k])
         IN  KeepFirst(IF overlaps THEN replacements
                       ELSE Append(replacements, m), Tail(matches))

ReplacementsMasking(markdown) ==
    SortByStart(KeepFirst(<<>>, SortByStart(AllMatches(markdown))))

parseMarkdownToFormattedTextMasking(markdown) ==
    BuildSegments(markdown, ReplacementsMasking(markdown))

(***************************************************************************)
(* Calls of the inline formatter.                                          *)
(***************************************************************************)
MarkdownAlphabet == {"a", "*", "_", "\n"}

Hello == <<"H", "e", "l", "l", "o", " ", "*", "*", "w", "o", "r", "l", "d",
           "*", "*", " ", "a", "n", "d", " ", "*", "f", "r", "i", "e", "n",
           "d", "*">>

\* plain1 + "**" + b + "**" + plain2 + "*" + i + "*"
BoldItalicInput(plain1, b, plain2, i) ==
    plain1 \o <<"*", "*">> \o b \o <<"*", "*">> \o plain2 \o <<"*">> \o i \o <<"*">>

PlainTexts == Strs({"a", " "}, MaxPlainLen) \ {<<>>}

BoldItalicInputs ==
    {BoldItalicInput(p1, b, p2, i) : p1 \in PlainTexts, b \in PlainTexts,
                                     p2 \in PlainTexts, i \in PlainTexts}

\* "**__***a*__": an underline candidate that overlaps a bold one and holds
\* an italic one.
BoldUnderlineItalic ==
    <<"*", "*", "_", "_", "*", "*", "*", "a", "*", "_", "_">>

\* "*__**a*__": an underline candidate that overlaps two italic ones.
ItalicUnderlineItalic == <<"*", "_", "_", "*", "*", "a", "*", "_", "_">>

MarkdownInputs ==
    Strs(MarkdownAlphabet, MaxMarkdownLen) \cup BoldItalicInputs \cup
    {Hello, BoldUnderlineItalic, ItalicUnderlineItalic}

InitFormat ==
    /\ pc = "call"
    /\ args \in {[markdown |-> m] : m \in MarkdownInputs}
    /\ frame = <<>>
    /\ ret = <<>>

\* parseMarkdownToFormattedText of src/utils/markdownParser.ts.
CallFormat ==
    /\ pc = "call"
    /\ pc' = "done"
    /\ ret' = [impl |-> "markdownParser",
               replacements |-> Replacements(args.markdown),
               segments |-> parseMarkdownToFormattedText(args.markdown)]
    /\ UNCHANGED <<args, frame>>

\* parseMarkdownToFormattedText of the masking variant.
CallFormatMasking ==
    /\ pc = "call"
    /\ pc' = "done"
    /\ ret' = [impl |-> "masking",
               replacements |-> ReplacementsMasking(args.markdown),
               segments |-> parseMarkdownToFormattedTextMasking(args.markdown)]
    /\ UNCHANGED <<args, frame>>

NextFormat == CallFormat \/ CallFormatMasking

SpecFormat == InitFormat /\ [][NextFormat]_vars


(***************************************************************************)
(* Properties of the inline formatter.                                     *)
(***************************************************************************)
SegmentTexts(segments) == Concat([k \in 1..Len(segments) |-> segments[k].text])

DelimiterChar(format) == IF format = "underline" THEN "_" ELSE "*"

\* Offsets of the opening and closing delimiter characters of a span.
DelimiterOffsets(r) ==
    LET w == DelimiterWidth(r.format)
    IN  (r.start..(r.start + w - 1)) \cup ((r.end - w)..(r.end - 1))

RECURSIVE DropOffsets(_, _, _)
DropOffsets(s, offsets, i) ==
    IF i >= Len(s) THEN <<>>
    ELSE (IF i \in offsets THEN <<>> ELSE <<s[i + 1]>>) \o
         DropOffsets(s, offsets, i + 1)

\* markdown with the delimiter characters of the accepted spans removed.
Stripped(markdown, replacements) ==
    DropOffsets(markdown,
                UNION {DelimiterOffsets(replacements[k]) :
                           k \in 1..Len(replacements)}, 0)

BoldThenItalicRecognized ==
    /\ \A p1 \in PlainTexts, b \in PlainTexts, p2 \in PlainTexts, i \in PlainTexts :
           (pc = "done" /\ args.markdown = BoldItalicInput(p1, b, p2, i)) =>
               ret.segments = <<PlainSegment(p1), StyledSegment(b, "bold"),
                                PlainSegment(p2), StyledSegment(i, "italic")>>
    /\ (pc = "done" /\ args.markdown = Hello) =>
           ret.segments =
               <<PlainSegment(<<"H", "e", "l", "l", "o", " ">>),
                 StyledSegment(<<"w", "o", "r", "l", "d">>, "bold"),
                 PlainSegment(<<" ", "a", "n", "d", " ">>),
                 StyledSegment(<<"f", "r", "i", "e", "n", "d">>, "italic")>>

\* The raw matches of a pattern in s, as its exec loop finds them.
Candidates(type, s) ==
    LET matches == ExecAll(type, s, 0)
    IN  {matches[k] : k \in 1..Len(matches)}

\* The spans [a.start, a.end) and [b.start, b.end) share an offset.
Intersects(a, b) == a.start < b.end /\ b.start < a.end

\* The candidate c was pushed as a replacement of the given format.
Accepted(c, format) ==
    \E k \in 1..Len(ret.replacements) :
        /\ ret.replacements[k].start = c.start
        /\ ret.replacements[k].end = c.end
        /\ ret.replacements[k].format = format

AcceptedSpans(format) ==
    {[start |-> ret.replacements[k].start, end |-> ret.replacements[k].end] :
         k \in {j \in 1..Len(ret.replacements) :
                    ret.replacements[j].format = format}}

Flags(segment) == {f \in {"bold", "italic", "underline"} : segment[f]}

\* The segments lay out markdown from offset on: a styled segment is the next
\* replacement, starting exactly at offset, with one flag and the text
\* between its delimiters; an unstyled segment is a non-empty slice of the
\* source that reaches the next replacement or the end of the input.
RECURSIVE Tiles(_, _, _, _)
Tiles(markdown, segments, replacements, offset) ==
    IF segments = <<>>
    THEN replacements = <<>> /\ offset = Len(markdown)
    ELSE LET g == Head(segments)
         IN  IF Flags(g) # {}
             THEN /\ replacements # <<>>
                  /\ LET r == Head(replacements)
                         w == DelimiterWidth(r.format)
                     IN  /\ r.start = offset
                         /\ Flags(g) = {r.format}
                         /\ g.text = Substring(markdown, r.start + w, r.end - w)
                         /\ Tiles(markdown, Tail(segments), Tail(replacements),
                                  r.end)
             ELSE LET next == offset + Len(g.text)
                  IN  /\ g.text # <<>>
                      /\ g.text = Substring(markdown, offset, next)
                      /\ next = IF replacements = <<>> THEN Len(markdown)
                                ELSE Head(replacements).start
                      /\ Tiles(markdown, Tail(segments), replacements, next)

NoCompleteSpan(markdown) ==
    \A type \in {"bold", "underline", "italic", "italicLine"} :
        ExecAll(type, markdown, 0) = <<>>

\* C20: an input without a complete span comes back as exactly one segment,
\* the whole input, with no style flag.
NoSpanOneSegment ==
    (pc = "done" /\ NoCompleteSpan(args.markdown)) =>
        ret.segments = <<PlainSegment(args.markdown)>>

\* A call on an input whose delimiters are never closed.
NoSpanOneSegmentWitness ==
    /\ pc = "done"
    /\ NoCompleteSpan(args.markdown)
    /\ Includes(args.markdown, <<"*", "*">>)
    /\ Includes(args.markdown, <<"_", "_">>)
    /\ Len(ret.segments) = 1

(***************************************************************************)
(* Text partitioner: splitTextForSlides, one action per loop iteration.    *)
(* frame holds its locals: slides, paragraphs (the paragraphs not yet      *)
(* visited), currentSlide, sentences (the sentences of the paragraph being *)
(* split that are not yet visited) and sentence (the sentence being        *)
(* hard-chunked).                                                          *)
(***************************************************************************)
ParagraphSeparator == <<"\n", "\n">>

SentenceSeparator == <<".", " ">>

Ellipsis == <<".", ".", ".">>

\* FitsOneSlide with the comparison made strict.
FitsOneSlideStrict(text, maxCharsPerSlide) == Len(text) < maxCharsPerSlide

\* if (text.length <= maxCharsPerSlide) return [text]
FitsOneSlide(text, maxCharsPerSlide) == Len(text) <= maxCharsPerSlide

\* if (currentSlide) { slides.push(currentSlide + suffix) }
PushIfAny(slides, currentSlide, suffix) ==
    IF currentSlide # <<>> THEN Append(slides, currentSlide \o suffix) ELSE slides

\* The suffix of a chunk closed inside the sentence loop.
SentenceSuffix(currentSlide) ==
    IF EndsWith(currentSlide, <<".">>) THEN <<>> ELSE <<".">>

\* One hard chunk: the first maxCharsPerSlide - 3 characters and "...".
HardChunk(sentence, maxCharsPerSlide) ==
    Substring(sentence, 0, maxCharsPerSlide - 3) \o Ellipsis

\* What is left of the sentence after one hard chunk.
HardChunkRest(sentence, maxCharsPerSlide) ==
    SubstringFrom(sentence, maxCharsPerSlide - 3)

TextAlphabet == {"a", ".", " ", "\n"}

InitSplit ==
    /\ pc = "call"
    /\ args \in {[text |-> t, maxCharsPerSlide |-> n] :
                     t \in Strs(TextAlphabet, MaxTextLen), n \in 1..MaxChars}
    /\ frame = <<>>
    /\ ret = <<>>

\* Entry: the short-circuit, or the split into paragraphs.
SplitEnter ==
    /\ pc = "call"
    /\ IF FitsOneSlide(args.text, args.maxCharsPerSlide)
       THEN /\ pc' = "done"
            /\ ret' = <<args.text>>
            /\ frame' = frame
       ELSE /\ pc' = "paragraphs"
            /\ frame' = [slides |-> <<>>,
                         paragraphs |-> Split(args.text, ParagraphSeparator),
                         currentSlide |-> <<>>,
                         sentences |-> <<>>,
                         sentence |-> <<>>]
            /\ ret' = ret
    /\ UNCHANGED args

\* One iteration of for (const paragraph of paragraphs) up to the point
\* where it either finishes or enters the sentence loop.
SplitParagraph ==
    /\ pc = "paragraphs"
    /\ frame.paragraphs # <<>>
    /\ LET paragraph == Head(frame.paragraphs)
           n == args.maxCharsPerSlide
           cur == frame.currentSlide
           rest == [frame EXCEPT !.paragraphs = Tail(frame.paragraphs)]
       IN  IF Len(cur) + Len(paragraph) + 2 <= n
           THEN /\ frame' = [rest EXCEPT !.currentSlide =
                                cur \o (IF cur # <<>> THEN ParagraphSeparator
                                        ELSE <<>>) \o paragraph]
                /\ pc' = pc
           ELSE IF Len(paragraph) > n
           THEN /\ frame' = [rest EXCEPT
                                !.slides = PushIfAny(frame.slides, cur, <<>>),
                                !.currentSlide = <<>>,
                                !.sentences = Split(paragraph, SentenceSeparator)]
                /\ pc' = "sentences"
           ELSE /\ frame' = [rest EXCEPT
                                !.slides = PushIfAny(frame.slides, cur, <<>>),
                                !.currentSlide = paragraph]
                /\ pc' = pc
    /\ UNCHANGED <<args, ret>>

\* One iteration of for (let sentence of sentences) up to the point where it
\* either finishes or enters the hard-chunk loop.
SplitSentence ==
    /\ pc = "sentences"
    /\ frame.sentences # <<>>
    /\ LET sentence == Head(frame.sentences)
           n == args.maxCharsPerSlide
           cur == frame.currentSlide
           rest == [frame EXCEPT !.sentences = Tail(frame.sentences)]
       IN  IF Len(cur) + Len(sentence) + 2 <= n
           THEN /\ frame' = [rest EXCEPT !.currentSlide =
                                cur \o (IF cur # <<>> THEN SentenceSeparator
                                        ELSE <<>>) \o sentence]
                /\ pc' = pc
           ELSE IF Len(sentence) > n
           THEN /\ frame' = [rest EXCEPT
                                !.slides = PushIfAny(frame.slides, cur,
                                                     SentenceSuffix(cur)),
                                !.currentSlide = <<>>,
                                !.sentence = sentence]
                /\ pc' = "chunks"
           ELSE /\ frame' = [rest EXCEPT
                                !.slides = PushIfAny(frame.slides, cur,
                                                     SentenceSuffix(cur)),
                                !.currentSlide = sentence]
                /\ pc' = pc
    /\ UNCHANGED <<args, ret>>

\* The sentence loop is exhausted: back to the paragraph loop.
SplitSentencesEnd ==
    /\ pc = "sentences"
    /\ frame.sentences = <<>>
    /\ pc' = "paragraphs"
    /\ UNCHANGED <<args, frame, ret>>

\* One iteration of while (sentence.length > maxCharsPerSlide).  The model
\* stops a call that has pushed MaxSlides slides.
SplitChunk ==
    /\ pc = "chunks"
    /\ Len(frame.sentence) > args.maxCharsPerSlide
    /\ Len(frame.slides) < MaxSlides
    /\ frame' = [frame EXCEPT
                    !.slides = Append(frame.slides,
                                      HardChunk(frame.sentence,
                                                args.maxCharsPerSlide)),
                    !.sentence = HardChunkRest(frame.sentence,
                                               args.maxCharsPerSlide)]
    /\ UNCHANGED <<pc, args, ret>>

\* The hard-chunk loop exits: the remainder seeds the next chunk.
SplitChunksEnd ==
    /\ pc = "chunks"
    /\ Len(frame.sentence) <= args.maxCharsPerSlide
    /\ frame' = [frame EXCEPT
                    !.currentSlide = IF Len(frame.sentence) > 0
                                     THEN frame.sentence ELSE @,
                    !.sentence = <<>>]
    /\ pc' = "sentences"
    /\ UNCHANGED <<args, ret>>

\* The paragraph loop is exhausted: the final flush and the return.
SplitReturn ==
    /\ pc = "paragraphs"
    /\ frame.paragraphs = <<>>
    /\ LET slides == PushIfAny(frame.slides, frame.currentSlide, <<>>)
       IN  /\ frame' = [frame EXCEPT !.slides = slides]
           /\ ret' = IF Len(slides) > 0 THEN slides ELSE <<args.text>>
    /\ pc' = "done"
    /\ UNCHANGED args

NextSplit ==
    \/ SplitEnter
    \/ SplitParagraph
    \/ SplitSentence
    \/ SplitSentencesEnd
    \/ SplitChunk
    \/ SplitChunksEnd
    \/ SplitReturn

SpecSplit == InitSplit /\ [][NextSplit]_vars


(***************************************************************************)
(* Properties of the text partitioner.                                     *)
(***************************************************************************)

\* C2: every returned chunk has length <= maxCharsPerSlide; only the last
\* chunk, which may be the remainder of a hard-chunked sentence, is exempt.
BoundedChunkSize ==
    pc = "done" =>
        \A k \in 1..(Len(ret) - 1) : Len(ret[k]) <= args.maxCharsPerSlide

\* C3: every iteration of the hard-chunk loop shortens the sentence that is
\* left, so the loop ends, and a call that returns returns at least one
\* chunk.
PartitionNeverBlocks ==
    [][/\ (pc = "chunks" /\ pc' = "chunks") =>
              Len(frame'.sentence) < Len(frame.sentence)
       /\ pc' = "done" => Len(ret') >= 1]_vars

\* C4 as stated: the result is [text] exactly when text.length <= n.
ShortCircuitExactly ==
    pc = "done" =>
        (ret = <<args.text>> <=> Len(args.text) <= args.maxCharsPerSlide)

\* The text is made of separators only: every paragraph is empty or splits
\* into empty sentences.
OnlySeparators(text) ==
    LET paragraphs == Split(text, ParagraphSeparator)
    IN  \A p \in 1..Len(paragraphs) :
            LET sentences == Split(paragraphs[p], SentenceSeparator)
            IN  \A q \in 1..Len(sentences) : sentences[q] = <<>>

\* C4 as amended: a text that fits is returned as [text]; a longer text is
\* returned as [text] only by the zero-chunk fallback, when it consists of
\* paragraph and sentence separators only.
ShortCircuit ==
    pc = "done" =>
        /\ Len(args.text) <= args.maxCharsPerSlide => ret = <<args.text>>
        /\ (Len(args.text) > args.maxCharsPerSlide /\ ret = <<args.text>>) =>
               (OnlySeparators(args.text) /\ frame.slides = <<>>)

\* A text longer than the budget that comes back unchanged.
ShortCircuitWitness ==
    /\ pc = "done"
    /\ Len(args.text) > args.maxCharsPerSlide
    /\ ret = <<args.text>>

\* The text holds no paragraph separator and no sentence separator.
NoSeparators(text) ==
    /\ ~ Includes(text, ParagraphSeparator)
    /\ ~ Includes(text, SentenceSeparator)

\* A hard chunk without the "..." appended to it.
DropEllipsis(chunk) == Substring(chunk, 0, Len(chunk) - Len(Ellipsis))

\* The chunks in order, the "..." of every hard chunk (all but the last,
\* which is the remainder of the sentence) deleted.
Rejoined(chunks) ==
    Concat([k \in 1..Len(chunks) |->
               IF k < Len(chunks) THEN DropEllipsis(chunks[k]) ELSE chunks[k]])

\* C11: for a text longer than n with no paragraph and no sentence
\* separator, every chunk the call emits has length <= n, and the call
\* returns at least two chunks that give back the original text once the
\* "..." of each hard chunk is deleted.
HardChunkingLossless ==
    (NoSeparators(args.text) /\ Len(args.text) > args.maxCharsPerSlide) =>
        /\ pc # "call" =>
               \A k \in 1..Len(frame.slides) :
                   Len(frame.slides[k]) <= args.maxCharsPerSlide
        /\ pc = "done" =>
               /\ Len(ret) >= 2
               /\ \A k \in 1..Len(ret) : Len(ret[k]) <= args.maxCharsPerSlide
               /\ Rejoined(ret) = args.text

\* C11 for the budgets at which the hard-chunk loop makes progress.
HardChunkingLosslessFromFour ==
    args.maxCharsPerSlide >= 4 => HardChunkingLossless


(***************************************************************************)
(* Font-fit sizer: estimateTextDimensions and calculateOptimalFontSize.    *)
(* Dimensions are kept in tenths of a point, so that fontSize * 0.6 and    *)
(* fontSize * 1.2 stay integers; a container of c points is 10 * c tenths. *)
(* The container sizes of the model are chosen so that no estimate equals  *)
(* a container size, where floating-point rounding could decide.           *)
(***************************************************************************)
FONT_SIZE_RANGES ==
    [TITLE |-> [min |-> 24, max |-> 44, default |-> 36],
     BODY |-> [min |-> 12, max |-> 24, default |-> 18],
     LIST |-> [min |-> 12, max |-> 20, default |-> 16],
     TABLE |-> [min |-> 10, max |-> 16, default |-> 12]]

LAYOUT_DIMENSIONS ==
    [TITLE |-> [x |-> 50, y |-> 50, width |-> 620, height |-> 80],
     BODY |-> [x |-> 50, y |-> 150, width |-> 620, height |-> 340],
     FULL_SLIDE |-> [x |-> 50, y |-> 50, width |-> 620, height |-> 440]]

Newline == <<"\n">>

\* estimateTextDimensions with avgCharWidth = fontSize * 6.
estimateTextDimensionsWide(text, fontSize) ==
    LET lines == Split(text, Newline)
        maxLineLength == Max({Len(lines[k]) : k \in 1..Len(lines)})
    IN  [width |-> maxLineLength * (fontSize * 60),
         height |-> Len(lines) * (fontSize * 12)]

\* In tenths of a point: avgCharWidth = fontSize * 0.6 is fontSize * 6 and
\* lineHeight = fontSize * 1.2 is fontSize * 12.
estimateTextDimensions(text, fontSize) ==
    LET lines == Split(text, Newline)
        maxLineLength == Max({Len(lines[k]) : k \in 1..Len(lines)})
    IN  [width |-> maxLineLength * (fontSize * 6),
         height |-> Len(lines) * (fontSize * 12)]

\* dimensions.width <= containerWidth && dimensions.height <= containerHeight
FitsContainer(text, fontSize, containerWidth, containerHeight) ==
    LET dimensions == estimateTextDimensions(text, fontSize)
    IN  /\ dimensions.width <= 10 * containerWidth
        /\ dimensions.height <= 10 * containerHeight

\* ShrinkFrom falling back to the minimum when the loop runs out.
RECURSIVE ShrinkFromToMin(_, _, _, _, _)
ShrinkFromToMin(text, containerWidth, containerHeight, fontSizeRange, fontSize) ==
    IF fontSize < fontSizeRange.min THEN fontSizeRange.min
    ELSE IF FitsContainer(text, fontSize, containerWidth, containerHeight)
    THEN fontSize
    ELSE ShrinkFromToMin(text, containerWidth, containerHeight, fontSizeRange,
                         fontSize - 2)

\* The downward loop from fontSize: the first size that fits, the default
\* when the loop runs out.
RECURSIVE ShrinkFrom(_, _, _, _, _)
ShrinkFrom(text, containerWidth, containerHeight, fontSizeRange, fontSize) ==
    IF fontSize < fontSizeRange.min THEN fontSizeRange.default
    ELSE IF FitsContainer(text, fontSize, containerWidth, containerHeight)
    THEN fontSize
    ELSE ShrinkFrom(text, containerWidth, containerHeight, fontSizeRange,
                    fontSize - 2)

\* GrowFrom with the loop bound one past the maximum.
RECURSIVE GrowFromPastMax(_, _, _, _, _, _)
GrowFromPastMax(text, containerWidth, containerHeight, fontSizeRange, fontSize, optimalSize) ==
    IF fontSize > fontSizeRange.max + 1 THEN optimalSize
    ELSE IF ~ FitsContainer(text, fontSize, containerWidth, containerHeight)
    THEN optimalSize
    ELSE GrowFromPastMax(text, containerWidth, containerHeight, fontSizeRange,
                         fontSize + 2, fontSize)

\* The upward loop from fontSize: the last size accepted before one does not
\* fit or the maximum is passed.
RECURSIVE GrowFrom(_, _, _, _, _, _)
GrowFrom(text, containerWidth, containerHeight, fontSizeRange, fontSize, optimalSize) ==
    IF fontSize > fontSizeRange.max THEN optimalSize
    ELSE IF ~ FitsContainer(text, fontSize, containerWidth, containerHeight)
    THEN optimalSize
    ELSE GrowFrom(text, containerWidth, containerHeight, fontSizeRange,
                  fontSize + 2, fontSize)

\* calculateOptimalFontSize without the upward loop.
calculateOptimalFontSizeNoGrow(text, containerWidth, containerHeight, fontSizeRange) ==
    ShrinkFrom(text, containerWidth, containerHeight, fontSizeRange,
               fontSizeRange.default)

calculateOptimalFontSize(text, containerWidth, containerHeight, fontSizeRange) ==
    LET shrunk == ShrinkFrom(text, containerWidth, containerHeight,
                             fontSizeRange, fontSizeRange.default)
    IN  IF shrunk = fontSizeRange.default
        THEN GrowFrom(text, containerWidth, containerHeight, fontSizeRange,
                      fontSizeRange.default + 2, shrunk)
        ELSE shrunk

Short == <<"s", "h", "o", "r", "t">>

FitTexts == Strs({"a", "\n"}, MaxFitLen) \cup {Short}

FitSizes == {6, 8, 9, 12, 14}

FitRanges ==
    {[min |-> lo, max |-> hi, default |-> d] :
         lo \in FitSizes, d \in FitSizes, hi \in FitSizes} \cup
    {FONT_SIZE_RANGES.TITLE, FONT_SIZE_RANGES.BODY, FONT_SIZE_RANGES.LIST,
     FONT_SIZE_RANGES.TABLE}

InitFit ==
    /\ pc = "call"
    /\ args \in {[text |-> t, containerWidth |-> w, containerHeight |-> h,
                  fontSizeRange |-> r] :
                     t \in FitTexts,
                     w \in {0, 20, 40, LAYOUT_DIMENSIONS.BODY.width},
                     h \in {10, 20, 40, LAYOUT_DIMENSIONS.BODY.height},
                     r \in {q \in FitRanges : q.min <= q.default /\ q.default <= q.max}}
    /\ frame = <<>>
    /\ ret = <<>>

CallFit ==
    /\ pc = "call"
    /\ pc' = "done"
    /\ ret' = calculateOptimalFontSize(args.text, args.containerWidth,
                                       args.containerHeight, args.fontSizeRange)
    /\ UNCHANGED <<args, frame>>

NextFit == CallFit

SpecFit == InitFit /\ [][NextFit]_vars

\* C5: the font size returned lies in [range.min, range.max].
FontFitBounds ==
    pc = "done" =>
        /\ args.fontSizeRange.min <= ret
        /\ ret <= args.fontSizeRange.max

\* A call in which the text did not fit at the default and a smaller size
\* was chosen.
FontFitBoundsWitness ==
    /\ pc = "done"
    /\ ret < args.fontSizeRange.default
    /\ args.fontSizeRange.min < args.fontSizeRange.default

ShortCall ==
    [text |-> Short, containerWidth |-> 620, containerHeight |-> 340,
     fontSizeRange |-> [min |-> 12, max |-> 24, default |-> 18]]

\* C10 as stated: fit("short", 620, 340, {min: 12, max: 24, default: 18})
\* returns 18.
FitShortReturnsDefault ==
    (pc = "done" /\ args = ShortCall) => ret = 18

\* C10 as amended: the call returns 24, the largest size of the upward
\* search, because "short" still fits at 20, 22 and 24.
FitShortReturnsMax ==
    (pc = "done" /\ args = ShortCall) => ret = 24

FitShortWitness ==
    /\ pc = "done"
    /\ args = ShortCall

\* The text fits the container at the default size.
DefaultFits ==
    FitsContainer(args.text, args.fontSizeRange.default, args.containerWidth,
                  args.containerHeight)

\* The sizes default, default - 2, ... that are not below the minimum.
DescentSizes(fontSizeRange) ==
    {s \in fontSizeRange.min..fontSizeRange.default :
         (fontSizeRange.default - s) % 2 = 0}

\* The sizes default, default + 2, ... that are not above the maximum.
AscentSizes(fontSizeRange) ==
    {s \in fontSizeRange.default..fontSizeRange.max :
         (s - fontSizeRange.default) % 2 = 0}

\* C16: when the default does not fit, the result is the first size of
\* default, default - 2, ... (not below the minimum) that fits, and the
\* default itself when none of them fits.
FitPhaseOne ==
    (pc = "done" /\ ~ DefaultFits) =>
        LET fitting == {s \in DescentSizes(args.fontSizeRange) :
                            FitsContainer(args.text, s, args.containerWidth,
                                          args.containerHeight)}
        IN  ret = IF fitting = {} THEN args.fontSizeRange.default
                  ELSE Max(fitting)

\* A call that tried the default and default - 2 in vain and returned
\* default - 4.
FitPhaseOneWitness ==
    /\ pc = "done"
    /\ ~ DefaultFits
    /\ ret = args.fontSizeRange.default - 4

\* C17: when the default fits, the result is the largest size s of default,
\* default + 2, ... (not above the maximum) such that every size of that
\* grid up to s fits; when the default does not fit the upward search
\* contributes nothing, the result is not above the default.
FitPhaseTwo ==
    pc = "done" =>
        IF DefaultFits
        THEN LET grid == AscentSizes(args.fontSizeRange)
                 reached == {s \in grid : \A t \in grid : t <= s =>
                                FitsContainer(args.text, t, args.containerWidth,
                                              args.containerHeight)}
             IN  ret = Max(reached)
        ELSE ret <= args.fontSizeRange.default

\* A call whose upward search accepted a size and was then stopped by a
\* size that does not fit, below the maximum.
FitPhaseTwoWitness ==
    /\ pc = "done"
    /\ DefaultFits
    /\ ret > args.fontSizeRange.default
    /\ ret + 2 <= args.fontSizeRange.max
    /\ FitsContainer(Short, 24, 620, 340)


(***************************************************************************)
(* Table structurer: parseMarkdownTable.                                   *)
(***************************************************************************)
Pipe == <<"|">>

\* markdown.split('\n').filter((line) => line.trim())
NonBlankLines(markdown) ==
    SelectSeq(Split(markdown, Newline), LAMBDA line : Trim(line) # <<>>)

\* line.split('|').map((cell) => cell.trim()).filter((cell) => cell !== '')
Cells(line) ==
    LET parts == Split(line, Pipe)
    IN  SelectSeq([k \in 1..Len(parts) |-> Trim(parts[k])],
                  LAMBDA cell : cell # <<>>)

\* separatorLine.match(/^\|?[\s-:|]+\|?$/): the optional pipes are in the
\* class themselves, so the line matches when it is a non-empty run of class
\* characters.
SeparatorMatches(separatorLine) ==
    /\ Len(separatorLine) >= 1
    /\ \A k \in 1..Len(separatorLine) :
           IsSpace(separatorLine[k]) \/ separatorLine[k] \in {"-", ":", "|"}

\* LooksLikeTable with the test of the separator line left out.
LooksLikeTableHeaderOnly(headerLine, separatorLine) ==
    Includes(headerLine, Pipe)

\* !(!headerLine.includes('|') || !separatorLine.includes('|'))
LooksLikeTable(headerLine, separatorLine) ==
    Includes(headerLine, Pipe) /\ Includes(separatorLine, Pipe)

\* while (cells.length < n) cells.push('')
RECURSIVE PadCells(_, _)
PadCells(cells, n) ==
    IF Len(cells) < n THEN PadCells(Append(cells, <<>>), n) ELSE cells

\* PaddedRow without the slice.
PaddedRowUncut(cells, headers) == PadCells(cells, Len(headers))

\* The row pushed for a line with at least one cell: padded, then
\* cells.slice(0, headers.length).
PaddedRow(cells, headers) ==
    SubSeq(PadCells(cells, Len(headers)), 1, Len(headers))

\* DataRows without the test for a "|" in the line.
RECURSIVE DataRowsEveryLine(_, _)
DataRowsEveryLine(lines, headers) ==
    IF lines = <<>> THEN <<>>
    ELSE LET rowLine == Trim(Head(lines))
             cells == Cells(rowLine)
         IN  (IF Len(cells) > 0
              THEN <<PaddedRow(cells, headers)>> ELSE <<>>) \o
             DataRowsEveryLine(Tail(lines), headers)

\* The "Parse data rows" loop over lines[2..].
RECURSIVE DataRows(_, _)
DataRows(lines, headers) ==
    IF lines = <<>> THEN <<>>
    ELSE LET rowLine == Trim(Head(lines))
             cells == Cells(rowLine)
         IN  (IF Includes(rowLine, Pipe) /\ Len(cells) > 0
              THEN <<PaddedRow(cells, headers)>> ELSE <<>>) \o
             DataRows(Tail(lines), headers)

NullTable == [null |-> TRUE]

parseMarkdownTable(markdown) ==
    LET lines == NonBlankLines(markdown)
    IN  IF Len(lines) < 2 THEN NullTable
        ELSE LET headerLine == Trim(lines[1])
                 separatorLine == Trim(lines[2])
                 headers == Cells(headerLine)
             IN  IF ~ LooksLikeTable(headerLine, separatorLine) THEN NullTable
                 ELSE IF ~ SeparatorMatches(separatorLine) THEN NullTable
                 ELSE [null |-> FALSE,
                       headers |-> headers,
                       rows |-> DataRows(SubSeq(lines, 3, Len(lines)), headers)]

RECURSIVE JoinLines(_)
JoinLines(lines) ==
    IF lines = <<>> THEN <<>>
    ELSE IF Len(lines) = 1 THEN lines[1]
    ELSE lines[1] \o Newline \o JoinLines(Tail(lines))

TableLines ==
    {<<>>, <<" ">>, <<"a">>, <<"-">>, <<"|">>, <<"|", "-", ":", "|">>,
     <<"a", "|", "b">>, <<"|", " ", "a", " ", "|">>, <<"a", "|", "|", "b">>,
     <<"a", "|", "b", "|", "c">>}

TableInputs ==
    {JoinLines(ls) : ls \in UNION {[1..k -> TableLines] : k \in 0..MaxTableLines}}

InitTable ==
    /\ pc = "call"
    /\ args \in {[markdown |-> m] : m \in TableInputs}
    /\ frame = <<>>
    /\ ret = <<>>

CallTable ==
    /\ pc = "call"
    /\ pc' = "done"
    /\ ret' = parseMarkdownTable(args.markdown)
    /\ UNCHANGED <<args, frame>>

NextTable == CallTable

SpecTable == InitTable /\ [][NextTable]_vars

\* C6: every row of a parsed table has exactly headers.length cells.
TablePadding ==
    (pc = "done" /\ ~ ret.null) =>
        \A k \in 1..Len(ret.rows) : Len(ret.rows[k]) = Len(ret.headers)

\* A table with a row that was padded and a row that was truncated.
TablePaddingWitness ==
    /\ pc = "done"
    /\ ~ ret.null
    /\ Len(ret.headers) = 2
    /\ \E k \in 1..Len(ret.rows) : ret.rows[k] = <<<<"a">>, <<>>>>
    /\ \E k \in 1..Len(ret.rows) : ret.rows[k] = <<<<"a">>, <<"b">>>>
    /\ Includes(args.markdown, <<"b", "|", "c">>)

\* "only whitespace, hyphens, colons, pipes"
OnlySeparatorCharacters(line) ==
    \A k \in 1..Len(line) : line[k] \in {" ", "\t", "\n", "-", ":", "|"}

\* C7 as stated: null exactly when there are fewer than two non-blank lines
\* or the second non-blank line does not match the separator pattern.
TableNullExactly ==
    pc = "done" =>
        LET lines == NonBlankLines(args.markdown)
        IN  ret.null <=>
                \/ Len(lines) < 2
                \/ ~ OnlySeparatorCharacters(Trim(lines[2]))

\* C7 as amended: null exactly when there are fewer than two non-blank
\* lines, or the first or the second non-blank line has no "|", or the
\* second does not match the separator pattern.
TableNullSentinel ==
    pc = "done" =>
        LET lines == NonBlankLines(args.markdown)
        IN  ret.null <=>
                \/ Len(lines) < 2
                \/ \A k \in 1..Len(lines[1]) : lines[1][k] # "|"
                \/ \A k \in 1..Len(lines[2]) : lines[2][k] # "|"
                \/ ~ OnlySeparatorCharacters(Trim(lines[2]))

\* Null although the second non-blank line matches the separator pattern:
\* it has no "|".
TableNullSentinelWitness ==
    /\ pc = "done"
    /\ ret.null
    /\ LET lines == NonBlankLines(args.markdown)
       IN  /\ Len(lines) >= 2
           /\ Includes(lines[1], Pipe)
           /\ OnlySeparatorCharacters(Trim(lines[2]))

\* The non-blank lines after the separator line.
LinesAfterSeparator(markdown) ==
    LET lines == NonBlankLines(markdown)
    IN  SubSeq(lines, 3, Len(lines))

HasPipe(line) == \E k \in 1..Len(line) : line[k] = "|"

\* The line has a character that is neither a pipe nor whitespace.
HasCellText(line) == \E k \in 1..Len(line) : line[k] # "|" /\ ~ IsSpace(line[k])

\* C22 as stated: the rows of a parsed table are as many as the non-blank
\* lines after the separator line that contain a "|".
TableRowsEveryPipeLine ==
    (pc = "done" /\ ~ ret.null) =>
        Len(ret.rows) =
            Len(SelectSeq(LinesAfterSeparator(args.markdown), HasPipe))

\* C22 as amended: the rows are as many as the non-blank lines after the
\* separator line that contain a "|" and a cell that is not blank.
TableRows ==
    (pc = "done" /\ ~ ret.null) =>
        Len(ret.rows) =
            Len(SelectSeq(LinesAfterSeparator(args.markdown),
                          LAMBDA line : HasPipe(line) /\ HasCellText(line)))

\* A table whose third line is a lone pipe and whose fourth line is its only
\* row.
TableRowsWitness ==
    /\ pc = "done"
    /\ ~ ret.null
    /\ Len(LinesAfterSeparator(args.markdown)) = 2
    /\ LinesAfterSeparator(args.markdown)[1] = Pipe
    /\ Len(ret.headers) = 2
    /\ ret.rows = <<<<<<"a">>, <<"b">>>>>>

\* The fields of a line between its pipes, trimmed, without the empty string
\* before a leading pipe and the one after a trailing pipe.
InteriorFields(line) ==
    LET parts == Split(line, Pipe)
        fields == [k \in 1..Len(parts) |-> Trim(parts[k])]
        first == IF fields[1] = <<>> THEN 2 ELSE 1
        last == IF fields[Len(fields)] = <<>> THEN Len(fields) - 1
                ELSE Len(fields)
    IN  SubSeq(fields, first, last)

\* C23: the j-th pipe-delimited field of the header line is the j-th header:
\* only the empty strings at the two ends of the split are discarded, an
\* empty field between two pipes stays an empty cell.
InteriorCellsKept ==
    (pc = "done" /\ ~ ret.null) =>
        ret.headers = InteriorFields(Trim(NonBlankLines(args.markdown)[1]))

\* InteriorCellsKept for the header lines that have no empty field between
\* two pipes: the part of C23 that the code keeps.
NonEmptyCellsKept ==
    (/\ pc = "done"
     /\ ~ ret.null
     /\ ~ Includes(InteriorFields(Trim(NonBlankLines(args.markdown)[1])),
                   <<<<>>>>)) =>
        ret.headers = InteriorFields(Trim(NonBlankLines(args.markdown)[1]))

(***************************************************************************)
(* List structurer: parseMarkdownList.                                     *)
(***************************************************************************)
Whitespace == {" ", "\n", "\t"}

Digits == {"0", "1", "2", "3", "4", "5", "6", "7", "8", "9"}

\* Number of characters of s from offset `from` on that are in `chars`,
\* up to the first that is not.
RECURSIVE RunLength(_, _, _)
RunLength(s, from, chars) ==
    IF from < Len(s) /\ s[from + 1] \in chars
    THEN 1 + RunLength(s, from + 1, chars) ELSE 0

\* BulletMatch with the marker left in the captured text.
BulletMatchKeepMarker(trimmed) ==
    LET spaces == RunLength(trimmed, 1, Whitespace)
    IN  IF /\ CharAt(trimmed, 0) \in {"-", "*", "+"}
           /\ spaces >= 1
           /\ 1 + spaces < Len(trimmed)
        THEN trimmed ELSE <<>>

\* trimmed.match(/^[-*+]\s+(.+)/): the captured text, <<>> for no match.
\* trimmed has no newline and no trailing whitespace, so (.+) is whatever
\* follows the whitespace run.
BulletMatch(trimmed) ==
    LET spaces == RunLength(trimmed, 1, Whitespace)
    IN  IF /\ CharAt(trimmed, 0) \in {"-", "*", "+"}
           /\ spaces >= 1
           /\ 1 + spaces < Len(trimmed)
        THEN SubstringFrom(trimmed, 1 + spaces) ELSE <<>>

\* trimmed.match(/^(\d+)\.\s+(.+)/): the second capture, <<>> for no match.
NumberMatch(trimmed) ==
    LET digits == RunLength(trimmed, 0, Digits)
        spaces == RunLength(trimmed, digits + 1, Whitespace)
    IN  IF /\ digits >= 1
           /\ CharAt(trimmed, digits) = "."
           /\ spaces >= 1
           /\ digits + 1 + spaces < Len(trimmed)
        THEN SubstringFrom(trimmed, digits + 1 + spaces) ELSE <<>>

\* Level with the half rounded up.
LevelRoundedUp(leadingSpaces) == (leadingSpaces + 1) \div 2

\* Math.floor(leadingSpaces / 2)
Level(leadingSpaces) == leadingSpaces \div 2

\* The item pushed for one non-blank line.
ListItem(line) ==
    LET trimmed == Trim(line)
        leadingSpaces == Len(line) - Len(TrimStart(line))
        level == Level(leadingSpaces)
    IN  IF BulletMatch(trimmed) # <<>>
        THEN [text |-> BulletMatch(trimmed), level |-> level, isNumbered |-> FALSE]
        ELSE IF NumberMatch(trimmed) # <<>>
        THEN [text |-> NumberMatch(trimmed), level |-> level, isNumbered |-> TRUE]
        ELSE [text |-> trimmed, level |-> level, isNumbered |-> FALSE]

parseMarkdownList(markdown) ==
    LET lines == NonBlankLines(markdown)
    IN  [k \in 1..Len(lines) |-> ListItem(lines[k])]

ListLines ==
    {<<>>, <<" ", " ">>,
     <<"-", " ", "a">>,
     <<" ", "*", " ", "a">>,
     <<" ", " ", "+", " ", "a">>,
     <<" ", " ", " ", "1", ".", " ", "a">>,
     <<" ", " ", " ", " ", "a">>,
     <<" ", " ", " ", " ", " ", " ", "-", " ", "a">>,
     <<"\t", "-", " ", "a">>,
     <<" ", " ", "\t", "\t", "a">>,
     <<"-">>, <<"1", ".", "a">>, <<"-", "a">>,
     <<"1", "2", ".", " ", " ", "a", " ", "b">>}

ListInputs ==
    {JoinLines(ls) : ls \in UNION {[1..k -> ListLines] : k \in 0..MaxListLines}}

InitList ==
    /\ pc = "call"
    /\ args \in {[markdown |-> m] : m \in ListInputs}
    /\ frame = <<>>
    /\ ret = <<>>

CallList ==
    /\ pc = "call"
    /\ pc' = "done"
    /\ ret' = parseMarkdownList(args.markdown)
    /\ UNCHANGED <<args, frame>>

NextList == CallList

SpecList == InitList /\ [][NextList]_vars

\* Number of " " characters at the start of the line.
RECURSIVE LeadingSpaceCount(_)
LeadingSpaceCount(line) ==
    IF line # <<>> /\ Head(line) = " "
    THEN 1 + LeadingSpaceCount(Tail(line)) ELSE 0

\* The line is indented with spaces only.
SpaceIndented(line) ==
    LET n == LeadingSpaceCount(line)
    IN  n < Len(line) /\ line[n + 1] \notin {"\t", "\n"}

\* C9: the k-th non-blank line yields the k-th item, and when the line is
\* indented by n spaces the item's level is floor(n / 2), so 2k spaces give
\* level k whatever the level of the item before.
ListLevelDerivation ==
    pc = "done" =>
        LET lines == NonBlankLines(args.markdown)
        IN  /\ Len(ret) = Len(lines)
            /\ \A i \in 1..Len(lines) :
                   SpaceIndented(lines[i]) =>
                       /\ 2 * ret[i].level <= LeadingSpaceCount(lines[i])
                       /\ LeadingSpaceCount(lines[i]) <= 2 * ret[i].level + 1

\* Two consecutive items whose levels jump from 0 to 3.
ListLevelDerivationWitness ==
    /\ pc = "done"
    /\ Len(ret) >= 2
    /\ ret[1].level = 0
    /\ ret[2].level = 3
    /\ LeadingSpaceCount(NonBlankLines(args.markdown)[2]) = 6


\* The number of digits the trimmed line starts with.
LeadingDigits(trimmed) ==
    Max({n \in 0..Len(trimmed) : \A j \in 1..n : trimmed[j] \in Digits})

\* What follows the first `marker` characters is whitespace and then text.
WhitespaceAndText(trimmed, marker) ==
    /\ marker < Len(trimmed)
    /\ IsSpace(trimmed[marker + 1])
    /\ TrimStart(SubstringFrom(trimmed, marker)) # <<>>

\* The trimmed line starts with -, * or + followed by whitespace and text.
IsBulletLine(trimmed) ==
    /\ CharAt(trimmed, 0) \in {"-", "*", "+"}
    /\ WhitespaceAndText(trimmed, 1)

\* The trimmed line starts with digits, '.', whitespace and text.
IsNumberedLine(trimmed) ==
    /\ LeadingDigits(trimmed) >= 1
    /\ CharAt(trimmed, LeadingDigits(trimmed)) = "."
    /\ WhitespaceAndText(trimmed, LeadingDigits(trimmed) + 1)

\* C21: parseMarkdownList returns one item per non-blank line, in line
\* order; a bullet line gives its text after the marker with isNumbered
\* false, a numbered line its text after the number with isNumbered true,
\* and any other line the whole trimmed line with isNumbered false.
ListItemKinds ==
    pc = "done" =>
        LET lines == SelectSeq(Split(args.markdown, Newline),
                               LAMBDA line : \E j \in 1..Len(line) :
                                                 ~ IsSpace(line[j]))
        IN  /\ Len(ret) = Len(lines)
            /\ \A k \in 1..Len(lines) :
                   LET trimmed == Trim(lines[k])
                   IN  IF IsBulletLine(trimmed)
                       THEN /\ ~ ret[k].isNumbered
                            /\ ret[k].text =
                                   TrimStart(SubstringFrom(trimmed, 1))
                       ELSE IF IsNumberedLine(trimmed)
                       THEN /\ ret[k].isNumbered
                            /\ ret[k].text =
                                   TrimStart(SubstringFrom(trimmed,
                                       LeadingDigits(trimmed) + 1))
                       ELSE /\ ~ ret[k].isNumbered
                            /\ ret[k].text = trimmed

\* A bullet and a numbered item in this order, parsed from an input with a
\* blank line between the two.
ListItemKindsWitness ==
    /\ pc = "done"
    /\ Len(Split(args.markdown, Newline)) = 3
    /\ Trim(Split(args.markdown, Newline)[2]) = <<>>
    /\ ret = <<[text |-> <<"a">>, level |-> 0, isNumbered |-> FALSE],
               [text |-> <<"a", " ", "b">>, level |-> 0, isNumbered |-> TRUE]>>

(***************************************************************************)
(* splitTextForSlides as a function of its arguments, for the callers that *)
(* use its result.  The loops are those of the step machine above; the     *)
(* hard-chunk loop is only unfolded for a budget of at least 4 characters, *)
(* where it ends.                                                          *)
(***************************************************************************)

\* The default of the maxCharsPerSlide parameter.
DefaultMaxCharsPerSlide == 800

\* while (sentence.length > maxCharsPerSlide) { ... }
RECURSIVE ChunkLoop(_, _, _)
ChunkLoop(slides, sentence, maxCharsPerSlide) ==
    IF Len(sentence) > maxCharsPerSlide /\ maxCharsPerSlide > Len(Ellipsis)
    THEN ChunkLoop(Append(slides, HardChunk(sentence, maxCharsPerSlide)),
                   HardChunkRest(sentence, maxCharsPerSlide), maxCharsPerSlide)
    ELSE [slides |-> slides, sentence |-> sentence]

\* for (let sentence of sentences) { ... }: slides and currentSlide after it.
RECURSIVE SentenceLoop(_, _, _, _)
SentenceLoop(slides, currentSlide, sentences, maxCharsPerSlide) ==
    IF sentences = <<>>
    THEN [slides |-> slides, currentSlide |-> currentSlide]
    ELSE LET sentence == Head(sentences)
             closed == PushIfAny(slides, currentSlide,
                                 SentenceSuffix(currentSlide))
             chunked == ChunkLoop(closed, sentence, maxCharsPerSlide)
         IN  IF Len(currentSlide) + Len(sentence) + 2 <= maxCharsPerSlide
             THEN SentenceLoop(slides,
                               currentSlide \o
                               (IF currentSlide # <<>> THEN SentenceSeparator
                                ELSE <<>>) \o sentence,
                               Tail(sentences), maxCharsPerSlide)
             ELSE IF Len(sentence) > maxCharsPerSlide
             THEN SentenceLoop(chunked.slides,
                               IF Len(chunked.sentence) > 0
                               THEN chunked.sentence ELSE <<>>,
                               Tail(sentences), maxCharsPerSlide)
             ELSE SentenceLoop(closed, sentence, Tail(sentences),
                               maxCharsPerSlide)

\* for (const paragraph of paragraphs) { ... }
RECURSIVE ParagraphLoop(_, _, _, _)
ParagraphLoop(slides, currentSlide, paragraphs, maxCharsPerSlide) ==
    IF paragraphs = <<>>
    THEN [slides |-> slides, currentSlide |-> currentSlide]
    ELSE LET paragraph == Head(paragraphs)
             closed == PushIfAny(slides, currentSlide, <<>>)
             split == SentenceLoop(closed, <<>>,
                                   Split(paragraph, SentenceSeparator),
                                   maxCharsPerSlide)
         IN  IF Len(currentSlide) + Len(paragraph) + 2 <= maxCharsPerSlide
             THEN ParagraphLoop(slides,
                                currentSlide \o
                                (IF currentSlide # <<>> THEN ParagraphSeparator
                                 ELSE <<>>) \o paragraph,
                                Tail(paragraphs), maxCharsPerSlide)
             ELSE IF Len(paragraph) > maxCharsPerSlide
             THEN ParagraphLoop(split.slides, split.currentSlide,
                                Tail(paragraphs), maxCharsPerSlide)
             ELSE ParagraphLoop(closed, paragraph, Tail(paragraphs),
                                maxCharsPerSlide)

splitTextForSlides(text, maxCharsPerSlide) ==
    IF FitsOneSlide(text, maxCharsPerSlide) THEN <<text>>
    ELSE LET looped == ParagraphLoop(<<>>, <<>>,
                                     Split(text, ParagraphSeparator),
                                     maxCharsPerSlide)
             slides == PushIfAny(looped.slides, looped.currentSlide, <<>>)
         IN  IF Len(slides) > 0 THEN slides ELSE <<text>>

\* The step machine and the function agree on every call that returns.
SplitAgrees ==
    (pc = "done" /\ args.maxCharsPerSlide > Len(Ellipsis)) =>
        ret = splitTextForSlides(args.text, args.maxCharsPerSlide)


(***************************************************************************)
(* The slide tools: add_text_to_slide, add_list_to_slide,                  *)
(* add_table_to_slide and create_slide_with_content.  An optional argument *)
(* is <<>> when the caller omits it and <<v>> when the caller supplies v.  *)
(* A request of a batchUpdate is a record whose kind names the request.    *)
(* frame holds calls (the request lists handed to batchUpdate so far),     *)
(* applied (those the service carried out), and contentSlides,             *)
(* createdSlides and the loop index i of create_slide_with_content.        *)
(***************************************************************************)

\* a || b for an optional number: 0 counts as missing.
NumberOr(optional, default) ==
    IF optional = <<>> \/ optional[1] = 0 THEN default ELSE optional[1]

\* a || b for an optional value of a string enum.
StringOr(optional, default) ==
    IF optional = <<>> THEN default ELSE optional[1]

\* a !== false for an optional boolean.
NotFalse(optional) == optional = <<>> \/ optional[1]

createTransform(x, y) ==
    [scaleX |-> 1, scaleY |-> 1, translateX |-> x, translateY |-> y,
     unit |-> "PT"]

createSize(width, height) ==
    [width |-> [magnitude |-> width, unit |-> "PT"],
     height |-> [magnitude |-> height, unit |-> "PT"]]

createElementProperties(pageObjectId, x, y, width, height) ==
    [pageObjectId |-> pageObjectId, size |-> createSize(width, height),
     transform |-> createTransform(x, y)]

\* generateObjectId(prefix): the ids of one call differ; n tells them apart.
generateObjectId(prefix, n) == <<prefix, n>>

\* One pass of the loop of generateTextFormattingRequests.
\* segment.fontSize of a segment that may lack the optional field: 0, which
\* is as falsy as undefined, when it does.
SegmentFontSize(segment) ==
    IF "fontSize" \in DOMAIN segment THEN segment.fontSize ELSE 0

\* The fields pushed for one segment, in the order of the four tests.
SegmentFields(segment) ==
    SelectSeq(<<"bold", "italic", "underline">>, LAMBDA f : segment[f]) \o
    (IF SegmentFontSize(segment) # 0 THEN <<"fontSize">> ELSE <<>>)

\* The style built for one segment.
SegmentStyle(segment) ==
    [f \in {SegmentFields(segment)[k] : k \in 1..Len(SegmentFields(segment))}
        |-> IF f = "fontSize"
            THEN [magnitude |-> SegmentFontSize(segment), unit |-> "PT"]
            ELSE TRUE]

\* FormattingRequestsFrom with currentIndex advanced only past the segments
\* that got a request.
RECURSIVE FormattingRequestsFromStyledOnly(_, _, _)
FormattingRequestsFromStyledOnly(objectId, segments, currentIndex) ==
    IF segments = <<>> THEN <<>>
    ELSE LET segment == Head(segments)
             endIndex == currentIndex + Len(segment.text)
             request == [kind |-> "updateTextStyle",
                         objectId |-> objectId,
                         textRange |-> [type |-> "FIXED_RANGE",
                                        startIndex |-> currentIndex,
                                        endIndex |-> endIndex],
                         style |-> SegmentStyle(segment),
                         fields |-> SegmentFields(segment)]
         IN  IF SegmentFields(segment) # <<>>
             THEN <<request>> \o
                  FormattingRequestsFromStyledOnly(objectId, Tail(segments),
                                                   endIndex)
             ELSE FormattingRequestsFromStyledOnly(objectId, Tail(segments),
                                                   currentIndex)

\* The loop over the segments from currentIndex on.
RECURSIVE FormattingRequestsFrom(_, _, _)
FormattingRequestsFrom(objectId, segments, currentIndex) ==
    IF segments = <<>> THEN <<>>
    ELSE LET segment == Head(segments)
             endIndex == currentIndex + Len(segment.text)
             request == [kind |-> "updateTextStyle",
                         objectId |-> objectId,
                         textRange |-> [type |-> "FIXED_RANGE",
                                        startIndex |-> currentIndex,
                                        endIndex |-> endIndex],
                         style |-> SegmentStyle(segment),
                         fields |-> SegmentFields(segment)]
         IN  (IF SegmentFields(segment) # <<>> THEN <<request>> ELSE <<>>) \o
             FormattingRequestsFrom(objectId, Tail(segments), endIndex)

generateTextFormattingRequests(objectId, segments) ==
    FormattingRequestsFrom(objectId, segments, 0)

CreateShape(objectId, elementProperties) ==
    [kind |-> "createShape", objectId |-> objectId, shapeType |-> "TEXT_BOX",
     elementProperties |-> elementProperties]

InsertText(objectId, text) ==
    [kind |-> "insertText", objectId |-> objectId, text |-> text,
     insertionIndex |-> 0]

\* updateTextStyle over the whole text: font size, Arial, and bold when the
\* fields list names it.
StyleAll(objectId, fontSize, fields) ==
    [kind |-> "updateTextStyle", objectId |-> objectId,
     textRange |-> [type |-> "ALL"],
     style |-> [fontSize |-> [magnitude |-> fontSize, unit |-> "PT"],
                fontFamily |-> "Arial"],
     fields |-> fields]

BoldAll(objectId) ==
    [kind |-> "updateTextStyle", objectId |-> objectId,
     textRange |-> [type |-> "ALL"], style |-> [bold |-> TRUE],
     fields |-> <<"bold">>]

\* lineSpacingReduction 0.1 is kept in tenths.
Autofit(objectId) ==
    [kind |-> "updateShapeProperties", objectId |-> objectId,
     shapeProperties |->
         [autofit |-> [autofitType |-> "SHAPE_AUTOFIT", fontScale |-> 1,
                       lineSpacingReductionTenths |-> 1]],
     fields |-> <<"autofit">>]

(***************************************************************************)
(* add_text_to_slide.                                                      *)
(***************************************************************************)
AddTextType(a) == StringOr(a.textType, "BODY")

AddTextDimensions(a) ==
    IF AddTextType(a) = "TITLE" THEN LAYOUT_DIMENSIONS.TITLE
    ELSE LAYOUT_DIMENSIONS.BODY

AddTextFontRange(a) ==
    IF AddTextType(a) = "TITLE" THEN FONT_SIZE_RANGES.TITLE
    ELSE FONT_SIZE_RANGES.BODY

\* x, y, width and height of the tools that take them, given the defaults.
Geometry(a, defaults) ==
    [x |-> NumberOr(a.x, defaults.x), y |-> NumberOr(a.y, defaults.y),
     width |-> NumberOr(a.width, defaults.width),
     height |-> NumberOr(a.height, defaults.height)]

\* AddTextFontSize with the caller's fontSize ignored.
AddTextFontSizeFitOnly(a, plainText, box) ==
    IF NotFalse(a.autoFitText)
    THEN calculateOptimalFontSize(plainText, box.width, box.height,
                                  AddTextFontRange(a))
    ELSE AddTextFontRange(a).default

\* let fontSize = args.fontSize; if (!fontSize && autoFitText) ... else if
\* (!fontSize) ...
AddTextFontSize(a, plainText, box) ==
    IF (a.fontSize = <<>> \/ a.fontSize[1] = 0) /\ NotFalse(a.autoFitText)
    THEN calculateOptimalFontSize(plainText, box.width, box.height,
                                  AddTextFontRange(a))
    ELSE IF a.fontSize = <<>> \/ a.fontSize[1] = 0
    THEN AddTextFontRange(a).default
    ELSE a.fontSize[1]

\* AddTextRequests with the whole-range style pushed after the per-segment
\* styles.
AddTextRequestsStyleLast(a, textSegments, plainText, box, fontSize) ==
    LET textObjectId == generateObjectId("text", 0)
    IN  <<CreateShape(textObjectId,
                      createElementProperties(a.slideId, box.x, box.y,
                                              box.width, box.height)),
          InsertText(textObjectId, plainText)>> \o
        generateTextFormattingRequests(textObjectId, textSegments) \o
        <<StyleAll(textObjectId, fontSize, <<"fontSize", "fontFamily">>)>> \o
        (IF AddTextType(a) = "TITLE" THEN <<BoldAll(textObjectId)>> ELSE <<>>) \o
        (IF NotFalse(a.autoFitText) THEN <<Autofit(textObjectId)>> ELSE <<>>)

\* The requests array of add_text_to_slide, in push order.
AddTextRequests(a, textSegments, plainText, box, fontSize) ==
    LET textObjectId == generateObjectId("text", 0)
    IN  <<CreateShape(textObjectId,
                      createElementProperties(a.slideId, box.x, box.y,
                                              box.width, box.height)),
          InsertText(textObjectId, plainText),
          StyleAll(textObjectId, fontSize, <<"fontSize", "fontFamily">>)>> \o
        (IF AddTextType(a) = "TITLE" THEN <<BoldAll(textObjectId)>> ELSE <<>>) \o
        generateTextFormattingRequests(textObjectId, textSegments) \o
        (IF NotFalse(a.autoFitText) THEN <<Autofit(textObjectId)>> ELSE <<>>)

AddTextResponse(a, textSegments, plainText, box, fontSize) ==
    [message |-> "Successfully added text to slide",
     objectId |-> generateObjectId("text", 0),
     slideId |-> a.slideId,
     textType |-> AddTextType(a),
     textLength |-> Len(plainText),
     fontSize |-> fontSize,
     autoFitText |-> NotFalse(a.autoFitText),
     markdownSegments |-> Len(textSegments),
     position |-> [x |-> box.x, y |-> box.y],
     size |-> [width |-> box.width, height |-> box.height]]

(***************************************************************************)
(* add_list_to_slide.                                                      *)
(***************************************************************************)
\* '  '.repeat(level)
Indentation(level) == [k \in 1..(2 * level) |-> " "]

\* The line of one item in the inserted text.
ItemLine(item) == Indentation(item.level) \o item.text

ListText(listItems) ==
    JoinLines([k \in 1..Len(listItems) |-> ItemLine(listItems[k])])

ListBulletStyle(a, listItems) ==
    StringOr(a.bulletStyle,
             IF listItems[1].isNumbered THEN "NUMBERED_DECIMAL"
             ELSE "BULLET_DISC_CIRCLE_SQUARE")

\* bulletStyles[levelNum]
LevelBulletStyle(a, listItems, levelNum) ==
    CASE levelNum = 0 -> ListBulletStyle(a, listItems)
      [] levelNum = 1 -> IF listItems[1].isNumbered THEN "NUMBERED_ALPHA_LOWER"
                         ELSE "BULLET_CIRCLE_HOLLOW"
      [] levelNum = 2 -> IF listItems[1].isNumbered THEN "NUMBERED_DECIMAL"
                         ELSE "BULLET_DIAMOND_X"

\* currentIndex before item k: the lengths of the earlier lines, each with
\* its newline.
RECURSIVE ItemStart(_, _)
ItemStart(listItems, k) ==
    IF k = 1 THEN 0
    ELSE ItemStart(listItems, k - 1) + Len(ItemLine(listItems[k - 1])) + 1

ParagraphBullets(objectId, textRange, bulletPreset) ==
    [kind |-> "createParagraphBullets", objectId |-> objectId,
     textRange |-> textRange, bulletPreset |-> bulletPreset]

\* The requests pushed for the ranges of one level, in item order.
LevelRequests(a, objectId, listItems, levelNum) ==
    LET members == SelectSeq([k \in 1..Len(listItems) |-> k],
                             LAMBDA k : listItems[k].level = levelNum)
    IN  [m \in 1..Len(members) |->
            ParagraphBullets(objectId,
                [type |-> "FIXED_RANGE",
                 startIndex |-> ItemStart(listItems, members[m]),
                 endIndex |-> ItemStart(listItems, members[m]) +
                              Len(ItemLine(listItems[members[m]]))],
                LevelBulletStyle(a, listItems, levelNum))]

\* Object.entries(levelGroups) lists the levels in ascending order; only
\* levels 1 and 2 have a style of their own.
NestedRequests(a, objectId, listItems) ==
    IF \E k \in 1..Len(listItems) : listItems[k].level > 0
    THEN LevelRequests(a, objectId, listItems, 1) \o
         LevelRequests(a, objectId, listItems, 2)
    ELSE <<>>

AddListRequests(a, listItems, listText, box, fontSize) ==
    LET listObjectId == generateObjectId("list", 0)
    IN  <<CreateShape(listObjectId,
                      createElementProperties(a.slideId, box.x, box.y,
                                              box.width, box.height)),
          InsertText(listObjectId, listText),
          StyleAll(listObjectId, fontSize, <<"fontSize", "fontFamily">>),
          ParagraphBullets(listObjectId, [type |-> "ALL"],
                           ListBulletStyle(a, listItems))>> \o
        NestedRequests(a, listObjectId, listItems)

AddListResponse(a, listItems, fontSize) ==
    [message |-> "Successfully added list to slide",
     objectId |-> generateObjectId("list", 0),
     slideId |-> a.slideId,
     itemCount |-> Len(listItems),
     bulletStyle |-> ListBulletStyle(a, listItems),
     hasNestedItems |-> \E k \in 1..Len(listItems) : listItems[k].level > 0,
     fontSize |-> fontSize]

(***************************************************************************)
(* add_table_to_slide.                                                     *)
(***************************************************************************)
\* The height of one table row in the default height.
RowHeight == 40

\* TableValid without the test for a column.
TableValidAnyColumns(parsedTable) == ~ parsedTable.null

\* The table can be created: parsing succeeded and there is a column
\* (totalRows is never 0).
TableValid(parsedTable) ==
    ~ parsedTable.null /\ Len(parsedTable.headers) # 0

TableGeometry(a, totalRows) ==
    Geometry(a, [x |-> LAYOUT_DIMENSIONS.BODY.x, y |-> LAYOUT_DIMENSIONS.BODY.y,
                 width |-> LAYOUT_DIMENSIONS.BODY.width,
                 height |-> Min({LAYOUT_DIMENSIONS.BODY.height,
                                 totalRows * RowHeight})])

CellLocation(rowIndex, columnIndex) ==
    [rowIndex |-> rowIndex, columnIndex |-> columnIndex]

InsertCellText(objectId, rowIndex, columnIndex, text) ==
    [kind |-> "insertText", objectId |-> objectId,
     cellLocation |-> CellLocation(rowIndex, columnIndex), text |-> text,
     insertionIndex |-> 0]

\* The cells of the grid in row-major order, rows firstRow..lastRow.
GridCells(firstRow, lastRow, totalColumns) ==
    [k \in 1..((lastRow - firstRow + 1) * totalColumns) |->
        CellLocation(firstRow + (k - 1) \div totalColumns,
                     (k - 1) % totalColumns)]

\* insertText for every non-empty header, then for every non-empty cell.
CellTextRequests(objectId, headers, rows) ==
    LET grid == GridCells(0, Len(rows), Len(headers))
        value(c) == IF c.rowIndex = 0 THEN headers[c.columnIndex + 1]
                    ELSE rows[c.rowIndex][c.columnIndex + 1]
        filled == SelectSeq(grid, LAMBDA c : value(c) # <<>>)
    IN  [k \in 1..Len(filled) |->
            InsertCellText(objectId, filled[k].rowIndex,
                           filled[k].columnIndex, value(filled[k]))]

CellStyle(objectId, cell, fontSize, bold) ==
    [kind |-> "updateTextStyle", objectId |-> objectId, cellLocation |-> cell,
     textRange |-> [type |-> "ALL"],
     style |-> IF bold
               THEN [bold |-> TRUE,
                     fontSize |-> [magnitude |-> fontSize, unit |-> "PT"],
                     fontFamily |-> "Arial"]
               ELSE [fontSize |-> [magnitude |-> fontSize, unit |-> "PT"],
                     fontFamily |-> "Arial"],
     fields |-> IF bold THEN <<"bold", "fontSize", "fontFamily">>
                ELSE <<"fontSize", "fontFamily">>]

TableRange(rowSpan, columnSpan) ==
    [location |-> CellLocation(0, 0), rowSpan |-> rowSpan,
     columnSpan |-> columnSpan]

HeaderStyleRequests(objectId, totalColumns) ==
    LET cells == GridCells(0, 0, totalColumns)
    IN  [k \in 1..Len(cells) |->
            CellStyle(objectId, cells[k], FONT_SIZE_RANGES.TABLE.default + 2,
                      TRUE)] \o
        <<[kind |-> "updateTableCellProperties", objectId |-> objectId,
           tableRange |-> TableRange(1, totalColumns),
           fields |-> <<"tableCellBackgroundFill">>]>>

DataStyleRequests(objectId, totalRows, totalColumns) ==
    LET cells == GridCells(1, totalRows - 1, totalColumns)
    IN  [k \in 1..Len(cells) |->
            CellStyle(objectId, cells[k], FONT_SIZE_RANGES.TABLE.default,
                      FALSE)]

AddTableRequests(a, headers, rows, box) ==
    LET tableObjectId == generateObjectId("table", 0)
        totalRows == Len(rows) + 1
        totalColumns == Len(headers)
    IN  <<[kind |-> "createTable", objectId |-> tableObjectId,
           elementProperties |->
               createElementProperties(a.slideId, box.x, box.y, box.width,
                                       box.height),
           rows |-> totalRows, columns |-> totalColumns]>> \o
        CellTextRequests(tableObjectId, headers, rows) \o
        (IF NotFalse(a.headerStyle)
         THEN HeaderStyleRequests(tableObjectId, totalColumns) ELSE <<>>) \o
        DataStyleRequests(tableObjectId, totalRows, totalColumns) \o
        <<[kind |-> "updateTableBorderProperties", objectId |-> tableObjectId,
           tableRange |-> TableRange(totalRows, totalColumns),
           borderPosition |-> "ALL",
           fields |-> <<"tableBorderFill", "weight", "dashStyle">>]>>

AddTableResponse(a, headers, rows, box) ==
    [message |-> "Successfully added table to slide",
     objectId |-> generateObjectId("table", 0),
     slideId |-> a.slideId,
     dimensions |-> [rows |-> Len(rows) + 1, columns |-> Len(headers)],
     size |-> [width |-> box.width, height |-> box.height],
     position |-> [x |-> box.x, y |-> box.y],
     headerStyle |-> NotFalse(a.headerStyle)]

(***************************************************************************)
(* create_slide_with_content.                                              *)
(***************************************************************************)
DigitChars == <<"0", "1", "2", "3", "4", "5", "6", "7", "8", "9">>

\* The decimal digits of a natural number, as `${n}` writes them.
RECURSIVE NumberToString(_)
NumberToString(n) ==
    IF n < 10 THEN <<DigitChars[n + 1]>>
    ELSE NumberToString(n \div 10) \o <<DigitChars[(n % 10) + 1]>>

\* i === 0 ? args.title : `${args.title} (cont. ${i + 1})`
CurrentTitle(a, i) ==
    IF i = 0 THEN a.title
    ELSE a.title \o <<" ", "(", "c", "o", "n", "t", ".", " ">> \o
         NumberToString(i + 1) \o <<")">>

SlideLayout(a) == StringOr(a.layout, "TITLE_AND_BODY")

\* const slideIndex = args.slideIndex || 1
SlideIndex(a) == NumberOr(a.slideIndex, 1)

\* The text of the segments and the size it is given in a box.
TextAndSize(segments, dimensions, fontSizeRange) ==
    LET text == SegmentTexts(segments)
    IN  [text |-> text,
         fontSize |-> calculateOptimalFontSize(text, dimensions.width,
                                               dimensions.height,
                                               fontSizeRange)]

\* The requests of iteration i of the loop over contentSlides; title and
\* content hold the text and the font size of the two boxes.
CreateSlideRequests(a, i, titleSegments, contentSegments, title, content) ==
    LET slideObjectId == generateObjectId("slide", i)
        titleObjectId == generateObjectId("title", i)
        contentObjectId == generateObjectId("content", i)
    IN  <<[kind |-> "createSlide", objectId |-> slideObjectId,
           insertionIndex |-> SlideIndex(a) + i,
           slideLayoutReference |-> [predefinedLayout |-> SlideLayout(a)]],
          CreateShape(titleObjectId,
                      createElementProperties(slideObjectId,
                                              LAYOUT_DIMENSIONS.TITLE.x,
                                              LAYOUT_DIMENSIONS.TITLE.y,
                                              LAYOUT_DIMENSIONS.TITLE.width,
                                              LAYOUT_DIMENSIONS.TITLE.height)),
          InsertText(titleObjectId, title.text),
          [StyleAll(titleObjectId, title.fontSize,
                    <<"fontSize", "fontFamily", "bold">>)
              EXCEPT !.style = [fontSize |-> [magnitude |-> title.fontSize,
                                              unit |-> "PT"],
                                fontFamily |-> "Arial", bold |-> TRUE]]>> \o
        generateTextFormattingRequests(titleObjectId, titleSegments) \o
        (IF SlideLayout(a) \in {"TITLE_AND_BODY", "BLANK"}
         THEN <<CreateShape(contentObjectId,
                            createElementProperties(slideObjectId,
                                                    LAYOUT_DIMENSIONS.BODY.x,
                                                    LAYOUT_DIMENSIONS.BODY.y,
                                                    LAYOUT_DIMENSIONS.BODY.width,
                                                    LAYOUT_DIMENSIONS.BODY.height)),
                InsertText(contentObjectId, content.text),
                StyleAll(contentObjectId, content.fontSize,
                         <<"fontSize", "fontFamily">>)>> \o
              generateTextFormattingRequests(contentObjectId, contentSegments)
         ELSE <<>>)

CreateSlideResponse(a, createdSlides) ==
    [message |-> "Successfully created slide(s) with content",
     count |-> Len(createdSlides),
     slideIds |-> createdSlides,
     title |-> a.title,
     contentLength |-> Len(a.text),
     splitIntoSlides |-> Len(createdSlides) > 1]

(***************************************************************************)
(* Calls of the tools.                                                     *)
(***************************************************************************)
MaxToolLines == 2
MaxSlideIndex == 3

Optionals(values) == {<<>>} \cup {<<v>> : v \in values}

Repeat(c, n) == [k \in 1..n |-> c]

\* Coordinates and sizes a caller supplies.
GeometryValues == {0, 100}

\* Font sizes a caller supplies, within the 8..72 of the schema.
FontSizeValues == {8, 40, 72}

\* The arguments no tool call has supplied.
NoArgs ==
    [tool |-> "", slideId |-> "slide", text |-> <<>>, title |-> <<>>,
     x |-> <<>>, y |-> <<>>, width |-> <<>>, height |-> <<>>,
     fontSize |-> <<>>, autoFitText |-> <<>>, textType |-> <<>>,
     bulletStyle |-> <<>>, headerStyle |-> <<>>, slideIndex |-> <<>>,
     layout |-> <<>>]

\* The call with the geometry a caller may add to it.
WithGeometry(base, x, y, width, height) ==
    [base EXCEPT !.x = x, !.y = y, !.width = width, !.height = height]

AddTextInputs ==
    {<<"a">>, <<"*", "*", "a", "*", "*", "b">>,
     <<"a", " ", "*", "b", "*", " ", "_", "_", "c", "_", "_">>,
     Repeat("a", 10), <<"a", "\n", "a", "\n", "a", "\n", "a", "\n", "a">>}

AddTextArgs ==
    {[NoArgs EXCEPT !.tool = "add_text_to_slide", !.text = t, !.textType = tt,
                    !.fontSize = fs, !.autoFitText = af] :
         t \in AddTextInputs,
         tt \in Optionals({"TITLE", "BODY", "CAPTION"}),
         fs \in Optionals(FontSizeValues),
         af \in Optionals(BOOLEAN)}

\* Lines of levels 0 to 3, bulleted, numbered and plain, and a blank line.
ToolListLines ==
    {<<>>, <<" ", " ">>,
     <<"-", " ", "a">>,
     <<"1", ".", " ", "a">>,
     <<" ", " ", "+", " ", "a">>,
     <<" ", " ", " ", "1", ".", " ", "a">>,
     <<" ", " ", " ", " ", "a">>,
     <<" ", " ", " ", " ", " ", " ", "-", " ", "a">>}

AddListInputs ==
    {JoinLines(ls) :
         ls \in UNION {[1..k -> ToolListLines] : k \in 0..MaxToolLines}}

AddListArgs ==
    {[NoArgs EXCEPT !.tool = "add_list_to_slide", !.text = t,
                    !.bulletStyle = bs] :
         t \in AddListInputs \ {<<>>},
         bs \in Optionals({"BULLET_DIAMOND_X", "NUMBERED_DECIMAL"})}

\* A header line, a second line, and up to MaxToolLines - 1 further lines.
ToolTableLines ==
    {<<"a">>, <<"|">>, <<"a", "|", "b">>, <<"|", " ", "a", " ", "|">>,
     <<"a", "|", "|", "b">>, <<"a", "|", "b", "|", "c">>}

AddTableInputs ==
    {JoinLines(<<h, sep>> \o ls) :
         h \in ToolTableLines,
         sep \in {<<"|", "-", ":", "|">>, <<"-">>, <<"a", "|", "b">>},
         ls \in UNION {[1..k -> ToolTableLines] : k \in 0..(MaxToolLines - 1)}}

AddTableArgs ==
    {[NoArgs EXCEPT !.tool = "add_table_to_slide", !.text = t,
                    !.headerStyle = hs] :
         t \in AddTableInputs, hs \in Optionals(BOOLEAN)}

Titles == {<<"T">>, <<"*", "*", "T", "*", "*", "t">>}

\* Contents that fit one slide, two paragraphs and two sentences that do
\* not, and a run without any separator.
Contents ==
    {<<"a">>, <<"*", "a", "*", " ", "b">>,
     Repeat("a", 400) \o ParagraphSeparator \o Repeat("b", 400),
     Repeat("a", 400) \o SentenceSeparator \o Repeat("b", 400),
     Repeat("A", 1600)}

CreateSlideArgs ==
    {[NoArgs EXCEPT !.tool = "create_slide_with_content", !.title = t,
                    !.text = c, !.slideIndex = si, !.layout = l] :
         t \in Titles, c \in Contents,
         si \in Optionals(0..MaxSlideIndex),
         l \in Optionals({"TITLE_AND_BODY", "TITLE_ONLY", "BLANK"})}

InitTools ==
    /\ pc = "call"
    /\ \/ args \in CreateSlideArgs
       \/ \E base \in AddTextArgs \cup AddListArgs \cup AddTableArgs :
              \E x \in Optionals(GeometryValues),
                 y \in Optionals(GeometryValues),
                 width \in Optionals(GeometryValues),
                 height \in Optionals(GeometryValues) :
                  args = WithGeometry(base, x, y, width, height)
    /\ frame = [calls |-> <<>>, applied |-> <<>>, contentSlides |-> <<>>,
                createdSlides |-> <<>>, i |-> 0]
    /\ ret = <<>>

\* throw handleGoogleApiError(error, tool)
ToolError(tool) == [error |-> tool]

\* await batchUpdate({requests}) resolves: the service carried them out.
Resolved(requests) ==
    [frame EXCEPT !.calls = Append(@, requests),
                  !.applied = Append(@, requests)]

\* await batchUpdate({requests}) rejects: nothing was carried out.
Rejected(requests) == [frame EXCEPT !.calls = Append(@, requests)]

\* add_text_to_slide up to its batchUpdate, which resolves or rejects.
AddText ==
    /\ pc = "call"
    /\ args.tool = "add_text_to_slide"
    /\ \E textSegments \in {parseMarkdownToFormattedText(args.text)},
          box \in {Geometry(args, AddTextDimensions(args))} :
        \E plainText \in {SegmentTexts(textSegments)} :
          \E fontSize \in {AddTextFontSize(args, plainText, box)} :
            \E requests \in {AddTextRequests(args, textSegments, plainText,
                                             box, fontSize)} :
              \E resolves \in BOOLEAN :
                IF resolves
                THEN /\ frame' = Resolved(requests)
                     /\ ret' = AddTextResponse(args, textSegments, plainText,
                                               box, fontSize)
                     /\ pc' = "done"
                ELSE /\ frame' = Rejected(requests)
                     /\ ret' = ToolError(args.tool)
                     /\ pc' = "failed"
    /\ UNCHANGED args

\* AddListEmpty with a batchUpdate of no requests issued before the throw.
AddListEmptyBatch ==
    /\ pc = "call"
    /\ args.tool = "add_list_to_slide"
    /\ Len(parseMarkdownList(args.text)) = 0
    /\ frame' = Rejected(<<>>)
    /\ ret' = ToolError(args.tool)
    /\ pc' = "failed"
    /\ UNCHANGED args

\* if (listItems.length === 0) throw
AddListEmpty ==
    /\ pc = "call"
    /\ args.tool = "add_list_to_slide"
    /\ Len(parseMarkdownList(args.text)) = 0
    /\ ret' = ToolError(args.tool)
    /\ pc' = "failed"
    /\ UNCHANGED <<args, frame>>

\* add_list_to_slide up to its batchUpdate, which resolves or rejects.
AddList ==
    /\ pc = "call"
    /\ args.tool = "add_list_to_slide"
    /\ \E listItems \in {parseMarkdownList(args.text)},
          box \in {Geometry(args, LAYOUT_DIMENSIONS.BODY)} :
        /\ Len(listItems) # 0
        /\ \E listText \in {ListText(listItems)} :
             \E fontSize \in {calculateOptimalFontSize(listText, box.width,
                                  box.height, FONT_SIZE_RANGES.LIST)} :
               \E requests \in {AddListRequests(args, listItems, listText,
                                                box, fontSize)} :
                 \E resolves \in BOOLEAN :
                   IF resolves
                   THEN /\ frame' = Resolved(requests)
                        /\ ret' = AddListResponse(args, listItems, fontSize)
                        /\ pc' = "done"
                   ELSE /\ frame' = Rejected(requests)
                        /\ ret' = ToolError(args.tool)
                        /\ pc' = "failed"
    /\ UNCHANGED args

\* if (!parsedTable) throw; if (totalColumns === 0 || totalRows === 0) throw
AddTableInvalid ==
    /\ pc = "call"
    /\ args.tool = "add_table_to_slide"
    /\ ~ TableValid(parseMarkdownTable(args.text))
    /\ ret' = ToolError(args.tool)
    /\ pc' = "failed"
    /\ UNCHANGED <<args, frame>>

\* add_table_to_slide up to its batchUpdate, which resolves or rejects.
AddTable ==
    /\ pc = "call"
    /\ args.tool = "add_table_to_slide"
    /\ \E parsedTable \in {parseMarkdownTable(args.text)} :
        /\ TableValid(parsedTable)
        /\ \E box \in {TableGeometry(args, Len(parsedTable.rows) + 1)} :
             \E requests \in {AddTableRequests(args, parsedTable.headers,
                                               parsedTable.rows, box)} :
               \E resolves \in BOOLEAN :
                 IF resolves
                 THEN /\ frame' = Resolved(requests)
                      /\ ret' = AddTableResponse(args, parsedTable.headers,
                                                 parsedTable.rows, box)
                      /\ pc' = "done"
                 ELSE /\ frame' = Rejected(requests)
                      /\ ret' = ToolError(args.tool)
                      /\ pc' = "failed"
    /\ UNCHANGED args

\* create_slide_with_content up to its first batchUpdate: the content is
\* partitioned once, before the loop.
CreateSlideEnter ==
    /\ pc = "call"
    /\ args.tool = "create_slide_with_content"
    /\ frame' = [frame EXCEPT !.contentSlides =
                    splitTextForSlides(args.text, DefaultMaxCharsPerSlide)]
    /\ pc' = "loop"
    /\ UNCHANGED <<args, ret>>

\* CreateSlideBatch with the slides created so far undone when the
\* batchUpdate rejects.
CreateSlideBatchRollback ==
    /\ pc = "loop"
    /\ frame.i < Len(frame.contentSlides)
    /\ \E titleSegments \in
              {parseMarkdownToFormattedText(CurrentTitle(args, frame.i))},
          contentSegments \in
              {parseMarkdownToFormattedText(frame.contentSlides[frame.i + 1])} :
        \E title \in {TextAndSize(titleSegments, LAYOUT_DIMENSIONS.TITLE,
                                  FONT_SIZE_RANGES.TITLE)},
           content \in {TextAndSize(contentSegments, LAYOUT_DIMENSIONS.BODY,
                                    FONT_SIZE_RANGES.BODY)} :
          \E requests \in {CreateSlideRequests(args, frame.i, titleSegments,
                                               contentSegments, title,
                                               content)} :
            \E resolves \in BOOLEAN :
              IF resolves
              THEN /\ frame' = [Resolved(requests) EXCEPT
                                   !.createdSlides =
                                       Append(@, generateObjectId("slide",
                                                                  frame.i)),
                                   !.i = @ + 1]
                   /\ pc' = "loop"
                   /\ ret' = ret
              ELSE /\ frame' = [Rejected(requests) EXCEPT !.applied = <<>>]
                   /\ ret' = ToolError(args.tool)
                   /\ pc' = "failed"
    /\ UNCHANGED args

\* One iteration of the loop over contentSlides up to its batchUpdate, which
\* resolves (the slide id is pushed and the loop goes on) or rejects (the
\* catch ends the tool).
CreateSlideBatch ==
    /\ pc = "loop"
    /\ frame.i < Len(frame.contentSlides)
    /\ \E titleSegments \in
              {parseMarkdownToFormattedText(CurrentTitle(args, frame.i))},
          contentSegments \in
              {parseMarkdownToFormattedText(frame.contentSlides[frame.i + 1])} :
        \E title \in {TextAndSize(titleSegments, LAYOUT_DIMENSIONS.TITLE,
                                  FONT_SIZE_RANGES.TITLE)},
           content \in {TextAndSize(contentSegments, LAYOUT_DIMENSIONS.BODY,
                                    FONT_SIZE_RANGES.BODY)} :
          \E requests \in {CreateSlideRequests(args, frame.i, titleSegments,
                                               contentSegments, title,
                                               content)} :
            \E resolves \in BOOLEAN :
              IF resolves
              THEN /\ frame' = [Resolved(requests) EXCEPT
                                   !.createdSlides =
                                       Append(@, generateObjectId("slide",
                                                                  frame.i)),
                                   !.i = @ + 1]
                   /\ pc' = "loop"
                   /\ ret' = ret
              ELSE /\ frame' = Rejected(requests)
                   /\ ret' = ToolError(args.tool)
                   /\ pc' = "failed"
    /\ UNCHANGED args

\* The loop is over: the response lists the created slides.
CreateSlideReturn ==
    /\ pc = "loop"
    /\ frame.i = Len(frame.contentSlides)
    /\ ret' = CreateSlideResponse(args, frame.createdSlides)
    /\ pc' = "done"
    /\ UNCHANGED <<args, frame>>

NextTools ==
    \/ AddText
    \/ AddListEmpty
    \/ AddList
    \/ AddTableInvalid
    \/ AddTable
    \/ CreateSlideEnter
    \/ CreateSlideBatch
    \/ CreateSlideReturn

SpecTools == InitTools /\ [][NextTools]_vars

(***************************************************************************)
(* The claims about the tools' arguments.                                  *)
(***************************************************************************)

\* The first request of the k-th batchUpdate of the call.
FirstRequest(k) == frame.calls[k][1]

\* C12: create_slide_with_content inserts the first created slide at the
\* slideIndex the caller supplied, for every slideIndex >= 0, 0 included (and
\* the k-th created slide k - 1 places after it).
SlideIndexHonoured ==
    (args.tool = "create_slide_with_content" /\ args.slideIndex # <<>>) =>
        \A k \in 1..Len(frame.calls) :
            /\ FirstRequest(k).kind = "createSlide"
            /\ FirstRequest(k).insertionIndex = args.slideIndex[1] + (k - 1)

\* SlideIndexHonoured for the slideIndex values that are not 0: the part of
\* C12 that the code keeps.
SlideIndexHonouredFromOne ==
    (/\ args.tool = "create_slide_with_content"
     /\ args.slideIndex # <<>>
     /\ args.slideIndex[1] # 0) =>
        \A k \in 1..Len(frame.calls) :
            /\ FirstRequest(k).kind = "createSlide"
            /\ FirstRequest(k).insertionIndex = args.slideIndex[1] + (k - 1)

\* The tools that take x, y, width and height.
GeometryTools ==
    {"add_text_to_slide", "add_list_to_slide", "add_table_to_slide"}

\* The value the element's geometry must carry for a supplied field.
Carries(optional, carried) == optional = <<>> \/ carried = optional[1]

\* C13: the element created by add_text_to_slide, add_list_to_slide or
\* add_table_to_slide carries exactly the x, y, width and height the caller
\* supplied (0 included), with scale 1:1 and unit PT.
SuppliedGeometryCarried ==
    (args.tool \in GeometryTools /\ frame.calls # <<>>) =>
        LET properties == FirstRequest(1).elementProperties
        IN  /\ FirstRequest(1).kind \in {"createShape", "createTable"}
            /\ Carries(args.x, properties.transform.translateX)
            /\ Carries(args.y, properties.transform.translateY)
            /\ Carries(args.width, properties.size.width.magnitude)
            /\ Carries(args.height, properties.size.height.magnitude)
            /\ properties.transform.scaleX = 1
            /\ properties.transform.scaleY = 1
            /\ properties.transform.unit = "PT"
            /\ properties.size.width.unit = "PT"
            /\ properties.size.height.unit = "PT"

\* SuppliedGeometryCarried for the supplied values that are not 0: the part
\* of C13 that the code keeps.
NonZeroGeometryCarried ==
    (/\ args.tool \in GeometryTools
     /\ frame.calls # <<>>
     /\ \A f \in {args.x, args.y, args.width, args.height} : f # <<0>>) =>
        LET properties == FirstRequest(1).elementProperties
        IN  /\ Carries(args.x, properties.transform.translateX)
            /\ Carries(args.y, properties.transform.translateY)
            /\ Carries(args.width, properties.size.width.magnitude)
            /\ Carries(args.height, properties.size.height.magnitude)

\* The font size C15 expects of an add_text_to_slide call, from the text and
\* the box of its requests.
ExpectedFontSize ==
    LET size == FirstRequest(1).elementProperties.size
    IN  IF args.fontSize # <<>> THEN args.fontSize[1]
        ELSE IF args.autoFitText = <<FALSE>>
        THEN (IF args.textType = <<"TITLE">> THEN 36 ELSE 18)
        ELSE calculateOptimalFontSize(frame.calls[1][2].text,
                                      size.width.magnitude,
                                      size.height.magnitude,
                                      IF args.textType = <<"TITLE">>
                                      THEN FONT_SIZE_RANGES.TITLE
                                      ELSE FONT_SIZE_RANGES.BODY)

\* C15: the whole-range style directive of add_text_to_slide carries the
\* fontSize the caller supplied; when fontSize is omitted it carries the
\* range default (36 for TITLE, 18 otherwise) if autoFitText is false and the
\* font-fit result otherwise.
ExplicitFontSize ==
    (args.tool = "add_text_to_slide" /\ frame.calls # <<>>) =>
        /\ frame.calls[1][3].kind = "updateTextStyle"
        /\ frame.calls[1][3].textRange = [type |-> "ALL"]
        /\ frame.calls[1][3].style.fontSize =
               [magnitude |-> ExpectedFontSize, unit |-> "PT"]
        /\ pc = "done" => ret.fontSize = ExpectedFontSize

\* A call with a supplied fontSize that the font-fit sizer would not choose,
\* auto-fit left on, has carried 72 in its style directive.
ExplicitFontSizeWitness ==
    /\ args.tool = "add_text_to_slide"
    /\ args.fontSize = <<72>>
    /\ args.autoFitText # <<FALSE>>
    /\ pc = "done"
    /\ frame.calls[1][3].style.fontSize.magnitude = 72
    /\ ret.fontSize = 72

\* The ids of the text boxes a batch creates.
BatchBoxes(batch) ==
    {batch[j].objectId : j \in {j \in 1..Len(batch) :
                                    batch[j].kind = "createShape"}}

\* The positions in the batch of the requests of one kind for one object.
PositionsOf(batch, objectId, kind) ==
    {j \in 1..Len(batch) : batch[j].objectId = objectId /\ batch[j].kind = kind}

\* The whole-range style that sets font size and font family.
IsDefaultStyle(request) ==
    /\ request.textRange.type = "ALL"
    /\ \E j \in 1..Len(request.fields) : request.fields[j] = "fontSize"
    /\ \E j \in 1..Len(request.fields) : request.fields[j] = "fontFamily"

\* The markdown a text box of the k-th batch is built from.
BoxSource(objectId, k) ==
    IF args.tool = "add_text_to_slide" THEN args.text
    ELSE IF objectId[1] = "title" THEN CurrentTitle(args, k - 1)
    ELSE frame.contentSlides[k]

\* The ordering of C25 for one text box of a batch built from `segments`.
BoxOrdered(batch, objectId, segments) ==
    LET shape == PositionsOf(batch, objectId, "createShape")
        insert == PositionsOf(batch, objectId, "insertText")
        styles == PositionsOf(batch, objectId, "updateTextStyle")
        default == {j \in styles : IsDefaultStyle(batch[j])}
        ranged == SelectSeq([j \in 1..Len(batch) |-> j],
                            LAMBDA j : /\ j \in styles
                                       /\ batch[j].textRange.type =
                                              "FIXED_RANGE")
        flagged == SelectSeq(segments,
                             LAMBDA t : t.bold \/ t.italic \/ t.underline)
    IN  /\ Cardinality(shape) = 1
        /\ Cardinality(insert) = 1
        /\ Cardinality(default) = 1
        /\ \A a \in shape, b \in insert, c \in default :
               /\ a < b
               /\ b < c
               /\ \A m \in 1..Len(ranged) : c < ranged[m]
               /\ batch[b].text = SegmentTexts(segments)
               /\ Len(ranged) = Len(flagged)
               /\ \A m \in 1..Len(ranged) :
                      Substring(batch[b].text,
                                batch[ranged[m]].textRange.startIndex,
                                batch[ranged[m]].textRange.endIndex) =
                          flagged[m].text

\* C25: in every batch of add_text_to_slide and create_slide_with_content,
\* each text box has its createShape before its insertText, that before its
\* one whole-range default style, and that before every FIXED_RANGE style
\* of the box; the inserted text is the concatenation of the segment texts,
\* and the ranges cut the flagged segments' texts out of it.
DirectiveOrdering ==
    args.tool \in {"add_text_to_slide", "create_slide_with_content"} =>
        \A k \in 1..Len(frame.calls) :
            /\ BatchBoxes(frame.calls[k]) # {}
            /\ \A j \in 1..Len(frame.calls[k]) :
                   frame.calls[k][j].kind \in {"insertText", "updateTextStyle"}
                       => frame.calls[k][j].objectId \in
                              BatchBoxes(frame.calls[k])
            /\ \A objectId \in BatchBoxes(frame.calls[k]) :
                   \A segments \in {parseMarkdownToFormattedText(
                                        BoxSource(objectId, k))} :
                       BoxOrdered(frame.calls[k], objectId, segments)

\* A TITLE text with two styled segments: the batch has the bold whole-range
\* style and two FIXED_RANGE styles, the first of them starting at offset 2.
DirectiveOrderingWitness ==
    /\ args.tool = "add_text_to_slide"
    /\ args.textType = <<"TITLE">>
    /\ pc = "done"
    /\ Len(frame.calls[1]) = 7
    /\ frame.calls[1][5].textRange =
           [type |-> "FIXED_RANGE", startIndex |-> 2, endIndex |-> 3]
    /\ frame.calls[1][6].textRange.type = "FIXED_RANGE"

\* A second slide of create_slide_with_content with a styled title and a
\* content box.
DirectiveOrderingSlideWitness ==
    /\ args.tool = "create_slide_with_content"
    /\ Len(frame.calls) >= 2
    /\ Cardinality(BatchBoxes(frame.calls[2])) = 2
    /\ \E j \in 1..Len(frame.calls[2]) :
           /\ frame.calls[2][j].kind = "updateTextStyle"
           /\ frame.calls[2][j].textRange.type = "FIXED_RANGE"

\* The text has no non-blank line: it is whitespace only.
NoNonBlankLine(text) == \A j \in 1..Len(text) : IsSpace(text[j])

\* C26: parseMarkdownList returns the empty sequence exactly for an input
\* without a non-blank line, and add_list_to_slide then ends in an error
\* with no batchUpdate issued.
EmptyListFails ==
    args.tool = "add_list_to_slide" =>
        /\ parseMarkdownList(args.text) = <<>> <=> NoNonBlankLine(args.text)
        /\ (NoNonBlankLine(args.text) /\ pc # "call") =>
               /\ pc = "failed"
               /\ ret = [error |-> "add_list_to_slide"]
               /\ frame.calls = <<>>
               /\ frame.applied = <<>>

\* add_list_to_slide has failed on a text of blanks and newlines.
EmptyListFailsWitness ==
    /\ args.tool = "add_list_to_slide"
    /\ pc = "failed"
    /\ Len(args.text) >= 3
    /\ NoNonBlankLine(args.text)
    /\ frame.calls = <<>>

\* '<title> (cont. n)'
ContinuationTitle(title, n) ==
    title \o <<" ", "(", "c", "o", "n", "t", ".", " ">> \o
    NumberToString(n) \o <<")">>

\* The texts a batch inserts into the box of the given id.
InsertedTexts(batch, objectId) ==
    {batch[j].text : j \in PositionsOf(batch, objectId, "insertText")}

\* The k-th batch of create_slide_with_content creates one slide, titled for
\* chunk k - 1 and, where the layout has a body, carrying that chunk.
SlideOfChunk(batch, k, chunk) ==
    /\ {j \in 1..Len(batch) : batch[j].kind = "createSlide"} = {1}
    /\ batch[1].objectId = <<"slide", k - 1>>
    /\ InsertedTexts(batch, <<"title", k - 1>>) =
           {SegmentTexts(parseMarkdownToFormattedText(
                IF k = 1 THEN args.title
                ELSE ContinuationTitle(args.title, k)))}
    /\ InsertedTexts(batch, <<"content", k - 1>>) \in
           {{SegmentTexts(parseMarkdownToFormattedText(chunk))}} \cup
           (IF args.layout = <<"TITLE_ONLY">> THEN {{}} ELSE {})

\* The batches and the response of create_slide_with_content for its chunks,
\* the slides being inserted from index `first` on.
OverflowFrom(chunks, first) ==
    /\ Len(frame.calls) <= Len(chunks)
    /\ \A k \in 1..Len(frame.calls) :
           /\ SlideOfChunk(frame.calls[k], k, chunks[k])
           /\ frame.calls[k][1].insertionIndex = first + (k - 1)
    /\ pc = "done" =>
           /\ Len(frame.calls) = Len(chunks)
           /\ ret.slideIds = [k \in 1..Len(chunks) |-> <<"slide", k - 1>>]
           /\ ret.splitIntoSlides <=> Len(chunks) > 1

\* C27: for a content partitioned into k chunks create_slide_with_content
\* issues k batchUpdate calls in chunk order, the i-th creating one slide at
\* insertionIndex slideIndex + i that carries chunk i and is titled with the
\* title for i = 0 and '<title> (cont. i+1)' after; on success the response
\* lists the k slide ids in order and splitIntoSlides is k > 1.
ContentOverflow ==
    (/\ args.tool = "create_slide_with_content"
     /\ args.slideIndex # <<>>
     /\ pc # "call") =>
        \A chunks \in {splitTextForSlides(args.text, DefaultMaxCharsPerSlide)} :
            OverflowFrom(chunks, args.slideIndex[1])

\* ContentOverflow with the slides counted from 1 when slideIndex is omitted
\* or 0: the part of C27 that the code keeps.
ContentOverflowFromOne ==
    (args.tool = "create_slide_with_content" /\ pc # "call") =>
        \A chunks \in {splitTextForSlides(args.text, DefaultMaxCharsPerSlide)} :
            OverflowFrom(chunks, IF args.slideIndex \in {<<>>, <<0>>} THEN 1
                                 ELSE args.slideIndex[1])

\* Three slides were created for a content of three chunks.
ContentOverflowReached ==
    /\ args.tool = "create_slide_with_content"
    /\ pc = "done"
    /\ Len(ret.slideIds) = 3
    /\ ret.splitIntoSlides

\* C29: when the batchUpdate for chunk j of create_slide_with_content
\* fails, the j batches of the chunks before it have been carried out and
\* stay so, the failed call is the last one issued, and the tool ends in an
\* error that names no slide id.
NoRollback ==
    (args.tool = "create_slide_with_content" /\ pc = "failed") =>
        /\ Len(frame.calls) = Len(frame.applied) + 1
        /\ frame.applied = SubSeq(frame.calls, 1, Len(frame.applied))
        /\ \A k \in 1..Len(frame.applied) :
               /\ frame.applied[k][1].kind = "createSlide"
               /\ frame.applied[k][1].objectId = <<"slide", k - 1>>
        /\ Len(frame.calls) <= Len(frame.contentSlides)
        /\ ret = [error |-> "create_slide_with_content"]
        /\ ~ ENABLED NextTools

\* The call for the third chunk failed after two slides were created.
NoRollbackWitness ==
    /\ args.tool = "create_slide_with_content"
    /\ pc = "failed"
    /\ Len(frame.applied) = 2
    /\ Len(frame.calls) = 3
    /\ Len(frame.contentSlides) = 3

\* The offset at which the k-th line of a text starts.
LineStart(lines, k) ==
    IF k = 1 THEN 0 ELSE Len(JoinLines(SubSeq(lines, 1, k - 1))) + 1

\* The level-specific bullet requests of a batch for the k-th line of the
\* inserted text: FIXED_RANGE over exactly that line.
LineBullets(batch, lines, k) ==
    {j \in 1..Len(batch) :
        /\ batch[j].kind = "createParagraphBullets"
        /\ batch[j].textRange =
               [type |-> "FIXED_RANGE", startIndex |-> LineStart(lines, k),
                endIndex |-> LineStart(lines, k) + Len(lines[k])]}

\* The claim of C28 for the items of the given levels.
NestedBulletsAt(levels) ==
    (args.tool = "add_list_to_slide" /\ frame.calls # <<>>) =>
        \A items \in {parseMarkdownList(args.text)},
           lines \in {Split(frame.calls[1][2].text, Newline)} :
            /\ Len(lines) = Len(items)
            /\ \A k \in 1..Len(items) :
                   /\ lines[k] = Repeat(" ", 2 * items[k].level) \o items[k].text
                   /\ items[k].level \in levels =>
                          /\ Cardinality(LineBullets(frame.calls[1], lines, k)) = 1
                          /\ LineStart(lines, k) + Len(lines[k]) <=
                                 Len(frame.calls[1][2].text)
            /\ \A k, l \in 1..Len(items) :
                   (items[k].level \in levels /\ items[l].level \in levels) =>
                       \A j \in LineBullets(frame.calls[1], lines, k),
                          h \in LineBullets(frame.calls[1], lines, l) :
                           items[k].level = items[l].level <=>
                               frame.calls[1][j].bulletPreset =
                                   frame.calls[1][h].bulletPreset

\* C28: for every list item at level 1 or deeper add_list_to_slide emits a
\* createParagraphBullets whose FIXED_RANGE is exactly the item's line of
\* the inserted text (indentation and text, no newline), inside the text;
\* items of different levels get different bullet styles.
NestedBullets == NestedBulletsAt(Nat \ {0})

\* NestedBullets for the items at levels 1 and 2: the part of C28 that the
\* code keeps.
NestedBulletsToLevelTwo == NestedBulletsAt({1, 2})

\* A list with an item at level 3 was sent.
NestedBulletsDeepItem ==
    /\ args.tool = "add_list_to_slide"
    /\ frame.calls # <<>>
    /\ \E k \in 1..Len(parseMarkdownList(args.text)) :
           parseMarkdownList(args.text)[k].level = 3

\* The requests of a batch that address a cell.
CellRequests(batch) ==
    {j \in 1..Len(batch) : batch[j].kind \in {"insertText", "updateTextStyle"}}

\* C30: a batch of add_table_to_slide starts with a createTable of
\* (parsed rows) + 1 rows and headers.length >= 1 columns, and every
\* insertText and updateTextStyle of the batch addresses a cell of that
\* table; when parsing fails or there is no column no batch is issued.
TableInBounds ==
    args.tool = "add_table_to_slide" =>
        \A parsedTable \in {parseMarkdownTable(args.text)} :
            /\ frame.calls # <<>> =>
                   /\ ~ parsedTable.null
                   /\ frame.calls[1][1].kind = "createTable"
                   /\ frame.calls[1][1].rows = Len(parsedTable.rows) + 1
                   /\ frame.calls[1][1].columns = Len(parsedTable.headers)
                   /\ frame.calls[1][1].columns >= 1
                   /\ \A j \in CellRequests(frame.calls[1]) :
                          /\ 0 <= frame.calls[1][j].cellLocation.rowIndex
                          /\ frame.calls[1][j].cellLocation.rowIndex <
                                 frame.calls[1][1].rows
                          /\ 0 <= frame.calls[1][j].cellLocation.columnIndex
                          /\ frame.calls[1][j].cellLocation.columnIndex <
                                 frame.calls[1][1].columns
            /\ (pc # "call" /\ (parsedTable.null \/ parsedTable.headers = <<>>))
                   => (pc = "failed" /\ frame.calls = <<>>)

\* A table of two rows and three columns was sent with a text for its last
\* cell.
TableInBoundsWitness ==
    /\ args.tool = "add_table_to_slide"
    /\ pc = "done"
    /\ frame.calls[1][1].rows = 2
    /\ frame.calls[1][1].columns = 3
    /\ \E j \in CellRequests(frame.calls[1]) :
           /\ frame.calls[1][j].kind = "insertText"
           /\ frame.calls[1][j].cellLocation =
                  [rowIndex |-> 1, columnIndex |-> 2]

(***************************************************************************)
(* generateTextFormattingRequests on segments of any flags, the optional   *)
(* fontSize among them.                                                    *)
(***************************************************************************)
MaxSegments == 2

\* Segments with and without a font size of their own.
SegmentValues ==
    [text : {<<"a">>, <<"a", "b">>}, bold : BOOLEAN, italic : BOOLEAN,
     underline : BOOLEAN] \cup
    [text : {<<"a">>, <<"a", "b">>}, bold : BOOLEAN, italic : BOOLEAN,
     underline : BOOLEAN, fontSize : {14}]

InitRequests ==
    /\ pc = "call"
    /\ \E n \in 0..MaxSegments :
           \E segments \in [1..n -> SegmentValues] :
               args = [objectId |-> "box", segments |-> segments]
    /\ frame = <<>>
    /\ ret = <<>>

CallRequests ==
    /\ pc = "call"
    /\ pc' = "done"
    /\ ret' = generateTextFormattingRequests(args.objectId, args.segments)
    /\ UNCHANGED <<args, frame>>

NextRequests == CallRequests

SpecRequests == InitRequests /\ [][NextRequests]_vars

\* The attributes set on a segment.
AttributesSet(segment) ==
    {f \in {"bold", "italic", "underline"} : segment[f]} \cup
    (IF "fontSize" \in DOMAIN segment THEN {"fontSize"} ELSE {})

\* The indices of the segments that have an attribute set, in order.
FlaggedIndices(segments) ==
    SelectSeq([k \in 1..Len(segments) |-> k],
              LAMBDA k : AttributesSet(segments[k]) # {})

\* The summed text length of the first n segments.
TextLengthUpTo(segments, n) ==
    Len(Concat([k \in 1..n |-> segments[k].text]))

\* C24: generateTextFormattingRequests emits one style directive for each
\* segment with bold, italic, underline or fontSize set, in segment order,
\* and none for the others; its range is [o, o + text length) with o the
\* summed length of all earlier segments, its fields are the attributes set
\* on the segment, and successive ranges do not overlap and lie in
\* [0, total text length].
FormattingDirectives ==
    pc = "done" =>
        LET segments == args.segments
            flagged == FlaggedIndices(segments)
        IN  /\ Len(ret) = Len(flagged)
            /\ \A m \in 1..Len(flagged) :
                   LET segment == segments[flagged[m]]
                       o == TextLengthUpTo(segments, flagged[m] - 1)
                   IN  /\ ret[m].kind = "updateTextStyle"
                       /\ ret[m].objectId = args.objectId
                       /\ ret[m].textRange =
                              [type |-> "FIXED_RANGE", startIndex |-> o,
                               endIndex |-> o + Len(segment.text)]
                       /\ {ret[m].fields[j] : j \in 1..Len(ret[m].fields)} =
                              AttributesSet(segment)
                       /\ Len(ret[m].fields) =
                              Cardinality(AttributesSet(segment))
                       /\ DOMAIN ret[m].style = AttributesSet(segment)
                       /\ 0 <= ret[m].textRange.startIndex
                       /\ ret[m].textRange.endIndex <=
                              TextLengthUpTo(segments, Len(segments))
            /\ \A m \in 1..(Len(ret) - 1) :
                   ret[m].textRange.endIndex <= ret[m + 1].textRange.startIndex

\* An unflagged segment followed by one with bold and a font size of its
\* own: the one directive starts after the unflagged text.
FormattingDirectivesWitness ==
    /\ pc = "done"
    /\ Len(args.segments) = 2
    /\ AttributesSet(args.segments[1]) = {}
    /\ AttributesSet(args.segments[2]) = {"bold", "fontSize"}
    /\ Len(ret) = 1
    /\ ret[1].textRange.startIndex = Len(args.segments[1].text)
    /\ ret[1].fields = <<"bold", "fontSize">>

=============================================================================
